---- MODULE Spec2Model ----
(***************************************************************************)
(* Park 55 investment calculator: the financial projection engine of       *)
(* src/app.py (35-year variant) and src/park55-app.py (30-year variant).   *)
(*                                                                         *)
(* Python floats are modelled by exact rationals <<numerator, denominator>>*)
(* in lowest terms with a positive denominator, so that every equality of  *)
(* the code is an equality "within floating-point tolerance" of the model. *)
(***************************************************************************)
EXTENDS Integers, Sequences, FiniteSets, TLC

VARIABLES
    pc,             \* position inside run_calculations
    IRR_ENABLED,    \* whether numpy_financial could be imported
    pmt_raises,     \* whether npf.pmt raises when it is called in this run
    inputs_pct,     \* the session-state mapping handed to run_calculations
    params,         \* the mapping returned by convert_inputs_to_params
    results,        \* the results dict
    loop,           \* locals of the loan loop in calculate_financing_schedule
    df,             \* the columns of the projection DataFrame
    log             \* messages written with logging.error

vars == <<pc, IRR_ENABLED, pmt_raises, inputs_pct, params, results, loop, df, log>>

-----------------------------------------------------------------------------
(* Bounds of the model *)

\* largest KfW term (kfw_gesamtlaufzeit) enumerated besides the full horizon
MaxLaufzeit == 4
\* largest unit count (input_anzahl_whg) enumerated
MaxAnzahlWhg == 2

-----------------------------------------------------------------------------
(* float arithmetic *)

RECURSIVE GCD(_, _)
GCD(a, b) == IF b = 0 THEN a ELSE GCD(b, a % b)

Abs(a) == IF a < 0 THEN -a ELSE a

Norm(n, d) ==
    LET g == GCD(Abs(n), Abs(d))
        s == IF d < 0 THEN -1 ELSE 1
    IN  <<s * (n \div g), s * (d \div g)>>

Q(n, d) == Norm(n, d)

Num(i) == <<i, 1>>

Zero == <<0, 1>>

RNeg(x) == <<-x[1], x[2]>>

RAdd(x, y) ==
    LET g == GCD(x[2], y[2])
    IN  Norm(x[1] * (y[2] \div g) + y[1] * (x[2] \div g), (x[2] \div g) * y[2])

RSub(x, y) == RAdd(x, RNeg(y))

RMul(x, y) ==
    LET g1 == GCD(Abs(x[1]), y[2])
        g2 == GCD(Abs(y[1]), x[2])
    IN  Norm((x[1] \div g1) * (y[1] \div g2), (x[2] \div g2) * (y[2] \div g1))

RDiv(x, y) == RMul(x, Norm(y[2], y[1]))

RLe(x, y) ==
    LET g == GCD(x[2], y[2])
    IN  x[1] * (y[2] \div g) <= y[1] * (x[2] \div g)

RLt(x, y) == ~RLe(y, x)

RMax(x, y) == IF RLe(y, x) THEN x ELSE y

RMin(x, y) == IF RLe(x, y) THEN x ELSE y

RECURSIVE RPow(_, _)
RPow(q, n) ==
    IF n = 0 THEN Num(1)
    ELSE IF n = 1 THEN q
    ELSE LET h == RPow(q, n \div 2)
         IN  IF n % 2 = 0 THEN RMul(h, h) ELSE RMul(q, RMul(h, h))

-----------------------------------------------------------------------------
(* dicts *)

EmptyDict == [k \in {} |-> Zero]

Get(d, k, default) == IF k \in DOMAIN d THEN d[k] ELSE default

\* d.update(new): the keys of new override those of d
Put(d, new) == new @@ d

-----------------------------------------------------------------------------
(* constants of src/app.py *)

AFA_ALTBAU_SATZ == Q(2, 100)
AFA_DENKMAL_J1_8 == Q(9, 100)
AFA_DENKMAL_J9_12 == Q(7, 100)
BERECHNUNGSZEITRAUM == 35
KFW_LIMIT_PRO_WE_BASIS == 150000
KFW_ZUSCHUSS_261_SATZ == Q(40, 100)
KFW_ZUSCHUSS_BB_SATZ == Q(50, 100)
KOSTEN_BB_PRO_WE_DEFAULT == 3998
KFW_ANNUITAET == "Annuitaetendarlehen"
KFW_ENDFAELLIG == "Endfaelliges Darlehen"
KFW_DARLEHENSTYPEN == {KFW_ANNUITAET, KFW_ENDFAELLIG}

-----------------------------------------------------------------------------
(* convert_inputs_to_params *)

\* a percentage input is a number, None, the empty string or some other text
PctNum(n, d) == [t |-> "num", v |-> Q(n, d)]

pct_keys == {
    "input_sanierungskostenanteil_pct", "input_grundstuecksanteil_pct", "input_altbauanteil_pct",
    "ek_quote_pct", "bank_zins_pct", "bank_tilgung_pct", "kfw_zins_pct",
    "steuersatz_manuell_pct", "sicherheitsabschlag_pct",
    "mietsteigerung_pa_pct", "kostensteigerung_pa_pct", "wertsteigerung_pa_pct" }

\* key.replace('_pct', '')
new_key ==
    [ input_sanierungskostenanteil_pct |-> "input_sanierungskostenanteil",
      input_grundstuecksanteil_pct |-> "input_grundstuecksanteil",
      input_altbauanteil_pct |-> "input_altbauanteil",
      ek_quote_pct |-> "ek_quote",
      bank_zins_pct |-> "bank_zins",
      bank_tilgung_pct |-> "bank_tilgung",
      kfw_zins_pct |-> "kfw_zins",
      steuersatz_manuell_pct |-> "steuersatz_manuell",
      sicherheitsabschlag_pct |-> "sicherheitsabschlag",
      mietsteigerung_pa_pct |-> "mietsteigerung_pa",
      kostensteigerung_pa_pct |-> "kostensteigerung_pa",
      wertsteigerung_pa_pct |-> "wertsteigerung_pa" ]

\* the values that are no numbers: None, the empty string, a text
PctNone == [t |-> "none", v |-> Zero]

PctLeer == [t |-> "leer", v |-> Zero]

PctText == [t |-> "text", v |-> Zero]

\* variant that stores the percentage itself
pct_to_decimal_ohne_division(value) ==
    IF value.t = "num" THEN value.v ELSE Zero

\* float(value) / 100.0 with the None/''/ValueError/TypeError cases giving 0.0
pct_to_decimal(value) ==
    IF value.t = "num" THEN RDiv(value.v, Num(100)) ELSE Zero

\* variant that converts the numbers only and skips every other value
convert_inputs_to_params_nur_zahlen(inp) ==
    LET present == {k \in pct_keys : k \in DOMAIN inp /\ inp[k].t = "num"}
        byNew == [nk \in {new_key[k] : k \in present} |->
                    pct_to_decimal(inp[CHOOSE k \in present : new_key[k] = nk])]
    IN  Put(inp, byNew)

convert_inputs_to_params(inp) ==
    LET present == {k \in pct_keys : k \in DOMAIN inp}
        byNew == [nk \in {new_key[k] : k \in present} |->
                    pct_to_decimal(inp[CHOOSE k \in present : new_key[k] = nk])]
    IN  Put(inp, byNew)

-----------------------------------------------------------------------------
(* calculate_investment, src/app.py *)

\* variant without the floor at 0
afa_basis_ohne_untergrenze(vor_foerderung, kommunale_foerderung, kfw_tilgungszuschuss) ==
    RAdd(RSub(RSub(vor_foerderung, kommunale_foerderung), kfw_tilgungszuschuss),
         RMul(kommunale_foerderung, Q(15, 10)))

\* the renovation depreciation base after the grants (komm_zuschuss,
\* komm_eigenanteil and the floor at 0)
afa_basis_nach_foerderung(vor_foerderung, kommunale_foerderung, kfw_tilgungszuschuss) ==
    LET komm_zuschuss == kommunale_foerderung
        komm_eigenanteil == RMul(kommunale_foerderung, Q(15, 10))
    IN  RMax(Zero, RAdd(RSub(RSub(vor_foerderung, komm_zuschuss), kfw_tilgungszuschuss),
                        komm_eigenanteil))

AFA_HINWEIS == "Hinweis: Die Zuschuesse uebersteigen die Basis der Sanierungskosten."

\* variant that reports exactly the bases the floor cuts off
afa_hinweis_bei_untergrenze(vor_foerderung, kommunale_foerderung, kfw_tilgungszuschuss) ==
    RLt(afa_basis_ohne_untergrenze(vor_foerderung, kommunale_foerderung, kfw_tilgungszuschuss), Zero)

\* the condition under which results['afa_hinweis'] is the advisory
afa_hinweis_noetig(vor_foerderung, kommunale_foerderung, kfw_tilgungszuschuss) ==
    /\ RLt(vor_foerderung, RAdd(kommunale_foerderung, kfw_tilgungszuschuss))
    /\ RLt(Zero, vor_foerderung)

calculate_investment(p, res) ==
    LET kommunale_foerderung == Get(p, "input_kommunale_foerderung", Zero)
        wohnflaeche_saniert == Get(p, "input_wohnflaeche", Zero)
        wohnflaeche_bestand ==
            IF RLt(Zero, wohnflaeche_saniert) THEN RDiv(wohnflaeche_saniert, Q(14, 10)) ELSE Zero
        kaufpreis_bestand == RMul(wohnflaeche_bestand, Num(650))
        erwerbsnebenkosten == RMul(kaufpreis_bestand, Q(65, 1000))
        sanierungskosten_vor_zuschuss == Get(p, "input_sanierungskosten_vor_zuschuss", Zero)
        anzahl_whg == Get(p, "input_anzahl_whg", 1)
        kosten_bb_pro_we == Get(p, "kosten_baubegleitung_pro_we", Num(KOSTEN_BB_PRO_WE_DEFAULT))
        kosten_baubegleitung_gesamt == RMul(Num(anzahl_whg), kosten_bb_pro_we)
        aktivierung_baubegleitung == RMul(kosten_baubegleitung_gesamt, KFW_ZUSCHUSS_BB_SATZ)
        zuschuss_baubegleitung == RMul(kosten_baubegleitung_gesamt, KFW_ZUSCHUSS_BB_SATZ)
        gik_netto == RAdd(RAdd(kaufpreis_bestand, sanierungskosten_vor_zuschuss),
                          kosten_baubegleitung_gesamt)
        gik_brutto == RAdd(gik_netto, erwerbsnebenkosten)
        wert_sanierung == sanierungskosten_vor_zuschuss
        grundstuecksanteil_pct == Get(p, "input_grundstuecksanteil_pct", PctNum(8, 1))
        wert_grundstueck == RMul(kaufpreis_bestand, RDiv(grundstuecksanteil_pct.v, Num(100)))
        wert_altbau == RSub(kaufpreis_bestand, wert_grundstueck)
        anteil_altbau_am_bestand ==
            IF RLt(Zero, kaufpreis_bestand) THEN RDiv(wert_altbau, kaufpreis_bestand) ELSE Zero
        knk_auf_altbau == RMul(erwerbsnebenkosten, anteil_altbau_am_bestand)
        afa_basis_altbau == RAdd(wert_altbau, knk_auf_altbau)
        afa_basis_sanierung_vor_foerderung == RAdd(wert_sanierung, aktivierung_baubegleitung)
        foerderfaehig_in == Get(p, "input_kfw_foerderfaehige_kosten", Zero)
        kfw_foerderfaehig ==
            IF foerderfaehig_in = Zero THEN Get(p, "input_kfw_darlehen_261_basis", Zero)
            ELSE foerderfaehig_in
        kfw_tilgungszuschuss == RMul(kfw_foerderfaehig, KFW_ZUSCHUSS_261_SATZ)
        afa_basis_sanierung ==
            afa_basis_nach_foerderung(afa_basis_sanierung_vor_foerderung, kommunale_foerderung,
                                      kfw_tilgungszuschuss)
        afa_hinweis ==
            IF afa_hinweis_noetig(afa_basis_sanierung_vor_foerderung, kommunale_foerderung,
                                  kfw_tilgungszuschuss)
            THEN AFA_HINWEIS
            ELSE ""
        eigenkapital == RMul(gik_brutto, p["ek_quote"])
        fremdkapital == RSub(gik_brutto, eigenkapital)
        kfw_darlehen_261 == Get(p, "input_kfw_darlehen_261_basis", Zero)
        kfw_darlehen == RAdd(kfw_darlehen_261, kosten_baubegleitung_gesamt)
        gesamtzuschuss == RAdd(RAdd(kfw_tilgungszuschuss, zuschuss_baubegleitung), kommunale_foerderung)
    IN  Put(res,
          [ kommunale_foerderung |-> kommunale_foerderung,
            wohnflaeche_bestand |-> wohnflaeche_bestand,
            wohnflaeche_saniert |-> wohnflaeche_saniert,
            kaufpreis_bestand |-> kaufpreis_bestand,
            erwerbsnebenkosten |-> erwerbsnebenkosten,
            sanierungskosten_vor_zuschuss |-> sanierungskosten_vor_zuschuss,
            kosten_baubegleitung_gesamt |-> kosten_baubegleitung_gesamt,
            aktivierung_baubegleitung |-> aktivierung_baubegleitung,
            zuschuss_baubegleitung |-> zuschuss_baubegleitung,
            gik_netto |-> gik_netto,
            gik_brutto |-> gik_brutto,
            investitionsvolumen |-> gik_brutto,
            investitionssumme_gesamt |-> gik_brutto,
            wert_sanierung |-> wert_sanierung,
            wert_grundstueck |-> wert_grundstueck,
            wert_altbau |-> wert_altbau,
            afa_basis_grundstueck |-> wert_grundstueck,
            afa_basis_altbau |-> afa_basis_altbau,
            afa_basis_sanierung_vor_foerderung |-> afa_basis_sanierung_vor_foerderung,
            kfw_tilgungszuschuss |-> kfw_tilgungszuschuss,
            afa_basis_sanierung |-> afa_basis_sanierung,
            afa_hinweis |-> afa_hinweis,
            eigenkapital |-> eigenkapital,
            fremdkapital_gesamt |-> fremdkapital,
            eigenkapital_bedarf |-> eigenkapital,
            fremdkapital_bedarf |-> fremdkapital,
            kfw_zuschuss_bb |-> RMul(kosten_baubegleitung_gesamt, KFW_ZUSCHUSS_BB_SATZ),
            kfw_darlehen_basis |-> kfw_darlehen_261,
            kfw_darlehen |-> kfw_darlehen,
            kfw_darlehen_summe |-> kfw_darlehen_261,
            bankdarlehen |-> RMax(Zero, RSub(fremdkapital, kfw_darlehen)),
            gesamtzuschuss |-> gesamtzuschuss,
            effektives_eigenkapital |-> RMax(Zero, RSub(eigenkapital, gesamtzuschuss)),
            kfw_foerderfaehige_kosten_berechnet |->
                IF foerderfaehig_in = Zero THEN kfw_darlehen_261 ELSE kfw_foerderfaehig ])

-----------------------------------------------------------------------------
(* constants and calculate_investment of src/park55-app.py *)

GREST_SATZ == Q(5, 100)
NOTAR_AG_SATZ == Q(15, 1000)
ERWERBSNEBENKOSTEN_SATZ == RAdd(GREST_SATZ, NOTAR_AG_SATZ)

FINANZIERUNG_HINWEIS == "Hinweis: Das berechnete KfW-Darlehen (Basis+BB) war hoeher als der Fremdkapitalbedarf."

\* validation of the KfW loan against the debt requirement: the total and
\* the base that are financed, and whether the advisory is recorded
\* variant that caps the total but leaves the base component as entered
p55_kfw_begrenzung_ohne_reduktion(basis_in, kosten_baubegleitung_gesamt, fremdkapital_bedarf) ==
    LET gesamt_in == RAdd(basis_in, kosten_baubegleitung_gesamt)
    IN  IF RLt(fremdkapital_bedarf, gesamt_in) /\ RLt(Zero, fremdkapital_bedarf)
        THEN [gesamt |-> fremdkapital_bedarf, basis |-> basis_in, hinweis |-> TRUE]
        ELSE [gesamt |-> gesamt_in, basis |-> basis_in, hinweis |-> FALSE]

p55_kfw_begrenzung(basis_in, kosten_baubegleitung_gesamt, fremdkapital_bedarf) ==
    LET gesamt_in == RAdd(basis_in, kosten_baubegleitung_gesamt)
        reduktion == RSub(gesamt_in, fremdkapital_bedarf)
    IN  IF RLt(fremdkapital_bedarf, gesamt_in) /\ RLt(Zero, fremdkapital_bedarf)
        THEN [gesamt |-> fremdkapital_bedarf,
              basis |-> IF RLe(reduktion, basis_in) THEN RSub(basis_in, reduktion) ELSE Zero,
              hinweis |-> TRUE]
        ELSE [gesamt |-> gesamt_in, basis |-> basis_in, hinweis |-> FALSE]

p55_calculate_investment(p, res) ==
    LET gik_netto == p["input_gik_netto"]
        erwerbsnebenkosten == RMul(gik_netto, ERWERBSNEBENKOSTEN_SATZ)
        gik_brutto == RAdd(gik_netto, erwerbsnebenkosten)
        kosten_bb_pro_we == p["kosten_baubegleitung_pro_we"]
        anzahl_whg == p["input_anzahl_whg"]
        kosten_baubegleitung_gesamt == RMul(kosten_bb_pro_we, Num(anzahl_whg))
        zuschuss_baubegleitung == RMul(kosten_baubegleitung_gesamt, KFW_ZUSCHUSS_BB_SATZ)
        aktivierung_baubegleitung == RSub(kosten_baubegleitung_gesamt, zuschuss_baubegleitung)
        investitionssumme_gesamt == RAdd(gik_brutto, kosten_baubegleitung_gesamt)
        wert_grundstueck == RMul(gik_netto, p["input_grundstuecksanteil"])
        wert_sanierung == RMul(gik_netto, p["input_sanierungskostenanteil"])
        wert_altbau == RMul(gik_netto, p["input_altbauanteil"])
        nk_faktor == RAdd(Num(1), ERWERBSNEBENKOSTEN_SATZ)
        afa_basis_grundstueck == RMul(wert_grundstueck, nk_faktor)
        afa_basis_sanierung == RAdd(RMul(wert_sanierung, nk_faktor), aktivierung_baubegleitung)
        afa_basis_altbau == RMul(wert_altbau, nk_faktor)
        eigenkapital_bedarf ==
            IF investitionssumme_gesamt = Zero THEN Zero
            ELSE RMul(investitionssumme_gesamt, p["ek_quote"])
        fremdkapital_bedarf ==
            IF investitionssumme_gesamt = Zero THEN Zero
            ELSE RSub(investitionssumme_gesamt, eigenkapital_bedarf)
        kfw == p55_kfw_begrenzung(p["input_kfw_darlehen_261_basis"], kosten_baubegleitung_gesamt,
                                  fremdkapital_bedarf)
        kfw_darlehen_gesamt == kfw.gesamt
        kfw_darlehen_basis == kfw.basis
        kfw_tilgungszuschuss == RMul(kfw_darlehen_basis, KFW_ZUSCHUSS_261_SATZ)
        bankdarlehen == RSub(fremdkapital_bedarf, kfw_darlehen_gesamt)
        gesamtzuschuss == RAdd(kfw_tilgungszuschuss, zuschuss_baubegleitung)
        hinweis == IF kfw.hinweis THEN [finanzierung_hinweis |-> FINANZIERUNG_HINWEIS] ELSE EmptyDict
    IN  Put(Put(res, hinweis),
          [ gik_netto |-> gik_netto,
            erwerbsnebenkosten |-> erwerbsnebenkosten,
            gik_brutto |-> gik_brutto,
            kosten_baubegleitung_gesamt |-> kosten_baubegleitung_gesamt,
            zuschuss_baubegleitung |-> zuschuss_baubegleitung,
            aktivierung_baubegleitung |-> aktivierung_baubegleitung,
            investitionssumme_gesamt |-> investitionssumme_gesamt,
            afa_basis_grundstueck |-> afa_basis_grundstueck,
            afa_basis_sanierung |-> afa_basis_sanierung,
            afa_basis_altbau |-> afa_basis_altbau,
            afa_basis_summe_check |->
                RAdd(RAdd(afa_basis_grundstueck, afa_basis_sanierung), afa_basis_altbau),
            eigenkapital_bedarf |-> eigenkapital_bedarf,
            fremdkapital_bedarf |-> fremdkapital_bedarf,
            kfw_darlehen |-> kfw_darlehen_gesamt,
            kfw_darlehen_basis |-> kfw_darlehen_basis,
            kfw_tilgungszuschuss |-> kfw_tilgungszuschuss,
            bankdarlehen |-> bankdarlehen,
            gesamtzuschuss |-> gesamtzuschuss,
            effektives_eigenkapital |-> RMax(Zero, RSub(eigenkapital_bedarf, gesamtzuschuss)) ])

-----------------------------------------------------------------------------
(* calculate_annuity, src/app.py *)

PMT_FEHLER == "Fehler bei npf.pmt Berechnung"

\* numpy_financial.pmt(rate, nper, pv) with fv = 0 and payments at period end
npf_pmt(rate, nper, pv) ==
    IF rate = Zero THEN RNeg(RDiv(pv, Num(nper)))
    ELSE LET temp == RPow(RAdd(Num(1), rate), nper)
             fact == RDiv(RSub(temp, Num(1)), rate)
         IN  RNeg(RDiv(RMul(pv, temp), fact))

\* the outcome of one call: the value returned, the messages logged and
\* the exception that left the function ("none" when it returned)
Rueckgabe(value, logged) == [value |-> value, log |-> logged, exc |-> "none"]

Ausnahme(name, logged) == [value |-> Zero, log |-> logged, exc |-> name]

\* variant that spreads the loan over one period too many
annuitaet_manuell_zu_lang(principal, rate, periods, logged) ==
    IF rate = Zero
    THEN Rueckgabe(RDiv(principal, Num(periods + 1)), logged)
    ELSE LET q == RAdd(Num(1), rate)
             qn == RPow(q, periods + 1)
         IN  Rueckgabe(RDiv(RMul(principal, RMul(qn, RSub(q, Num(1)))), RSub(qn, Num(1))), logged)

\* "Manueller Fallback": the closed formula, straight-line at rate 0
annuitaet_manuell(principal, rate, periods, logged) ==
    IF rate = Zero
    THEN Rueckgabe(RDiv(principal, Num(periods)), logged)
    ELSE LET q == RAdd(Num(1), rate)
             qn == RPow(q, periods)
         IN  IF RSub(qn, Num(1)) = Zero
             THEN Ausnahme("ZeroDivisionError", logged)
             ELSE Rueckgabe(RDiv(RMul(principal, RMul(qn, RSub(q, Num(1)))), RSub(qn, Num(1))),
                            logged)

\* variant that lets the exception of npf.pmt leave the function
calculate_annuity_ohne_fallback(principal, rate, periods, enabled, raises) ==
    IF RLe(principal, Zero) \/ periods <= 0
    THEN Rueckgabe(Zero, <<>>)
    ELSE IF enabled /\ ~raises
    THEN Rueckgabe(RNeg(npf_pmt(rate, periods, principal)), <<>>)
    ELSE IF enabled
    THEN Ausnahme("Exception", <<PMT_FEHLER>>)
    ELSE annuitaet_manuell(principal, rate, periods, <<>>)

calculate_annuity(principal, rate, periods, enabled, raises) ==
    IF RLe(principal, Zero) \/ periods <= 0
    THEN Rueckgabe(Zero, <<>>)
    ELSE IF enabled /\ ~raises
    THEN Rueckgabe(RNeg(npf_pmt(rate, periods, principal)), <<>>)
    ELSE IF enabled
    THEN annuitaet_manuell(principal, rate, periods, <<PMT_FEHLER>>)
    ELSE annuitaet_manuell(principal, rate, periods, <<>>)

-----------------------------------------------------------------------------
(* calculate_financing_schedule, src/app.py *)

\* the 0.01 cut-off below which a loan counts as repaid
RESTSCHULD_EPS == Q(1, 100)

Jahre == 1..BERECHNUNGSZEITRAUM

\* df[col] = 0
NullSpalte == [j \in Jahre |-> Zero]

NoLoop == [jahr |-> 0, restschuld |-> Zero, annuitaet |-> Zero,
           zinsen_liste |-> <<>>, tilgung_liste |-> <<>>, restschuld_liste |-> <<>>]

LoopInit(darlehen, annuitaet) ==
    [jahr |-> 1, restschuld |-> darlehen, annuitaet |-> annuitaet,
     zinsen_liste |-> <<>>, tilgung_liste |-> <<>>, restschuld_liste |-> <<>>]

\* one pass of a loop body: the three appends and the new locals
LoopStep(l, zins_betrag, tilgung_betrag, restschuld, annuitaet) ==
    [jahr |-> l.jahr + 1, restschuld |-> restschuld, annuitaet |-> annuitaet,
     zinsen_liste |-> Append(l.zinsen_liste, zins_betrag),
     tilgung_liste |-> Append(l.tilgung_liste, tilgung_betrag),
     restschuld_liste |-> Append(l.restschuld_liste, restschuld)]

\* the branch "loan repaid": three zeros are appended, the locals stay
LoopSkip(l) ==
    [l EXCEPT !.jahr = @ + 1,
              !.zinsen_liste = Append(@, Zero),
              !.tilgung_liste = Append(@, Zero),
              !.restschuld_liste = Append(@, Zero)]

\* variant without the limit
tilgung_unbegrenzt(tilgung_betrag, restschuld) == tilgung_betrag

\* "if tilgung_betrag > restschuld: tilgung_betrag = restschuld"
tilgung_begrenzen(tilgung_betrag, restschuld) ==
    IF RLt(restschuld, tilgung_betrag) THEN restschuld ELSE tilgung_betrag

\* variant that repays one year late
endfaellige_tilgung_verspaetet(jahr, laufzeit_kfw, restschuld) ==
    IF jahr = laufzeit_kfw + 1 THEN restschuld ELSE Zero

\* the repayment of the bullet loan in a year: everything at maturity
endfaellige_tilgung(jahr, laufzeit_kfw, restschuld) ==
    IF jahr = laufzeit_kfw THEN restschuld ELSE Zero

\* variant that applies the grant a year later
restschuld_nach_zuschuss_jahr_2(jahr, restschuld, zuschuss_kfw_gesamt) ==
    IF jahr = 2 THEN RMax(Zero, RSub(restschuld, zuschuss_kfw_gesamt)) ELSE restschuld

\* 5. the grant is applied at the end of year 1, floored at 0
restschuld_nach_zuschuss(jahr, restschuld, zuschuss_kfw_gesamt) ==
    IF jahr = 1 THEN RMax(Zero, RSub(restschuld, zuschuss_kfw_gesamt)) ELSE restschuld

\* variant that repays the whole installment and the interest on top
bank_year_rate_ohne_zins(l, zins_bank) ==
    IF RLe(l.restschuld, RESTSCHULD_EPS)
    THEN LoopSkip(l)
    ELSE LET zins_betrag == RMul(l.restschuld, zins_bank)
             tilgung_betrag == tilgung_begrenzen(l.annuitaet, l.restschuld)
         IN  LoopStep(l, zins_betrag, tilgung_betrag, RSub(l.restschuld, tilgung_betrag), l.annuitaet)

\* body of the bank-loan loop for year l.jahr
bank_year(l, zins_bank) ==
    IF RLe(l.restschuld, RESTSCHULD_EPS)
    THEN LoopSkip(l)
    ELSE LET zins_betrag == RMul(l.restschuld, zins_bank)
             tilgung_roh == RSub(l.annuitaet, zins_betrag)
             tilgung_betrag == tilgung_begrenzen(tilgung_roh, l.restschuld)
         IN  LoopStep(l, zins_betrag, tilgung_betrag, RSub(l.restschuld, tilgung_betrag), l.annuitaet)

\* no call of calculate_annuity in this branch: the annuity is value
KeinAufruf(value) == Rueckgabe(value, <<>>)

\* variant that keeps the annuity computed before the grant
neuberechnung_nie(jahr, darlehenstyp_kfw, tilgungsfrei_kfw) == FALSE

\* "NEU BERECHNEN der Annuitaet fuer die Restlaufzeit (ab Jahr 2), FALLS
\* notwendig": at the end of year 1 of an annuity loan with Tf = 0 or Tf = 1
neuberechnung_noetig(jahr, darlehenstyp_kfw, tilgungsfrei_kfw) ==
    jahr = 1 /\ darlehenstyp_kfw = KFW_ANNUITAET /\ tilgungsfrei_kfw < 2

\* body of the KfW loop for year l.jahr: the new locals, what was logged and
\* the exception that left the body, if any
kfw_year(l, p, res, enabled, raises) ==
    LET jahr == l.jahr
        zins_kfw == p["kfw_zins"]
        laufzeit_kfw == p["kfw_gesamtlaufzeit"]
        darlehenstyp_kfw == Get(p, "kfw_darlehenstyp", KFW_ANNUITAET)
        tilgungsfrei_kfw ==
            IF darlehenstyp_kfw = KFW_ANNUITAET THEN p["kfw_tilgungsfreie_jahre"] ELSE 0
        zuschuss_kfw_gesamt == RAdd(res["kfw_tilgungszuschuss"], res["zuschuss_baubegleitung"])
    IN  IF RLe(l.restschuld, RESTSCHULD_EPS) /\ jahr > 1
        THEN [loop |-> LoopSkip(l), log |-> <<>>, exc |-> "none"]
        ELSE
        LET zins_roh == RMul(l.restschuld, zins_kfw)
            restlaufzeit == laufzeit_kfw - tilgungsfrei_kfw
            \* 2. annuity when the amortization phase begins
            erste == IF /\ darlehenstyp_kfw = KFW_ANNUITAET
                        /\ jahr = tilgungsfrei_kfw + 1
                        /\ (tilgungsfrei_kfw >= 2 \/ (tilgungsfrei_kfw < 2 /\ jahr = 1))
                        /\ restlaufzeit > 0
                     THEN calculate_annuity(l.restschuld, zins_kfw, restlaufzeit, enabled, raises)
                     ELSE KeinAufruf(l.annuitaet)
            tilgung_roh ==
                IF darlehenstyp_kfw = KFW_ANNUITAET
                THEN IF jahr > tilgungsfrei_kfw THEN RSub(erste.value, zins_roh) ELSE Zero
                ELSE IF darlehenstyp_kfw = KFW_ENDFAELLIG
                THEN endfaellige_tilgung(jahr, laufzeit_kfw, l.restschuld)
                ELSE Zero
            zins_betrag ==
                IF darlehenstyp_kfw = KFW_ENDFAELLIG /\ jahr > laufzeit_kfw THEN Zero ELSE zins_roh
            tilgung_betrag == tilgung_begrenzen(tilgung_roh, l.restschuld)
            \* 4. regular repayment
            nach_tilgung == RSub(l.restschuld, tilgung_betrag)
            \* 5. the grant, always at the end of year 1
            restschuld == restschuld_nach_zuschuss(jahr, nach_tilgung, zuschuss_kfw_gesamt)
            restlaufzeit_ab_j2 == laufzeit_kfw - 1
            neu == neuberechnung_noetig(jahr, darlehenstyp_kfw, tilgungsfrei_kfw)
            zweite == IF neu /\ restlaufzeit_ab_j2 > 0 /\ RLt(Zero, restschuld)
                      THEN calculate_annuity(restschuld, zins_kfw, restlaufzeit_ab_j2, enabled, raises)
                      ELSE IF neu /\ restlaufzeit_ab_j2 <= 0
                      THEN KeinAufruf(Zero)
                      ELSE KeinAufruf(erste.value)
        IN  IF erste.exc # "none"
            THEN [loop |-> l, log |-> erste.log, exc |-> erste.exc]
            ELSE IF zweite.exc # "none"
            THEN [loop |-> l, log |-> erste.log \o zweite.log, exc |-> zweite.exc]
            ELSE [loop |-> LoopStep(l, zins_betrag, tilgung_betrag, restschuld, zweite.value),
                  log |-> erste.log \o zweite.log, exc |-> "none"]

\* element-wise sum of two columns
SpaltenSumme(a, b) == [j \in Jahre |-> RAdd(a[j], b[j])]

\* the four "Gesamt" columns
gesamtsummen(d) ==
    LET zinsen_gesamt == SpaltenSumme(d["Zins Bank"], d["Zins KfW"])
        tilgung_gesamt == SpaltenSumme(d["Tilgung Bank"], d["Tilgung KfW"])
    IN  Put(d, ("Zinsen Gesamt" :> zinsen_gesamt)
               @@ ("Tilgung Gesamt" :> tilgung_gesamt)
               @@ ("Annuitaet Gesamt" :> SpaltenSumme(zinsen_gesamt, tilgung_gesamt))
               @@ ("Restschuld Gesamt" :> SpaltenSumme(d["Restschuld Bank"], d["Restschuld KfW"])))

-----------------------------------------------------------------------------
(* the inputs a run can start from *)

\* handle_kfw_foerderfaehig_change: the loan base the callback leaves in
\* input_kfw_darlehen_261_basis
handle_kfw_foerderfaehig_change(foerderfaehig, anzahl_whg, basis) ==
    IF foerderfaehig > 0
    THEN LET max_kfw_darlehen_basis == anzahl_whg * KFW_LIMIT_PRO_WE_BASIS
         IN  IF foerderfaehig < max_kfw_darlehen_basis THEN foerderfaehig
             ELSE max_kfw_darlehen_basis
    ELSE basis

\* session state of src/app.py as far as the core reads it
AppInputs(sanierung, wohnflaeche, anzahl, bb, komm, foerderfaehig, basis, ek, bank_zins, bank_tilgung, kfw_zins, typ, laufzeit, tilgungsfrei) ==
    [ input_sanierungskosten_vor_zuschuss |-> Num(sanierung),
      input_wohnflaeche |-> Num(wohnflaeche),
      input_anzahl_whg |-> anzahl,
      kosten_baubegleitung_pro_we |-> Num(bb),
      input_kommunale_foerderung |-> Num(komm),
      input_kfw_foerderfaehige_kosten |-> Num(foerderfaehig),
      input_kfw_darlehen_261_basis |-> Num(basis),
      input_sanierungskostenanteil_pct |-> PctNum(80, 1),
      input_grundstuecksanteil_pct |-> PctNum(8, 1),
      input_altbauanteil_pct |-> PctNum(12, 1),
      ek_quote_pct |-> ek,
      bank_zins_pct |-> bank_zins,
      bank_tilgung_pct |-> bank_tilgung,
      kfw_zins_pct |-> kfw_zins,
      kfw_darlehenstyp |-> typ,
      kfw_gesamtlaufzeit |-> laufzeit,
      kfw_tilgungsfreie_jahre |-> tilgungsfrei ]

\* the pairs (fundable costs, loan base) the two coupled inputs can hold:
\* either the override is 0 and the base was typed in, or the base was
\* derived from the override by handle_kfw_foerderfaehig_change
KfwEingaben(anzahl, basen, kosten) ==
    {<<0, b>> : b \in {x \in basen : x <= anzahl * KFW_LIMIT_PRO_WE_BASIS}}
    \cup {<<f, handle_kfw_foerderfaehig_change(f, anzahl, 0)>> : f \in kosten \ {0}}

\* (loan type, term, grace period) as the widgets admit them: the term is
\* 1..35, the grace period 0..term-1 and 0 for the bullet loan; terms above
\* MaxLaufzeit are represented by the full horizon
KfwLaufzeiten ==
    LET terms == (1..MaxLaufzeit) \cup {BERECHNUNGSZEITRAUM}
    IN  {<<KFW_ENDFAELLIG, lz, 0>> : lz \in terms}
        \cup {t \in {KFW_ANNUITAET} \X terms \X (0..BERECHNUNGSZEITRAUM - 1) :
                t[3] < t[2] /\ t[2] - t[3] <= MaxLaufzeit}

Start(first) ==
    /\ pc = first
    /\ params = EmptyDict
    /\ results = EmptyDict
    /\ loop = NoLoop
    /\ df = EmptyDict
    /\ log = <<>>

\* wide investment inputs, one financing
InitInvestment ==
    /\ Start("convert")
    /\ IRR_ENABLED = TRUE
    /\ pmt_raises = FALSE
    /\ \E sanierung \in {0, 100000, 400000}, wohnflaeche \in {0, 140},
          anzahl \in 1..MaxAnzahlWhg, bb \in {0, KOSTEN_BB_PRO_WE_DEFAULT},
          komm \in {0, 20000}, ek \in {0, 20, 100} :
         \E k \in KfwEingaben(anzahl, {0, 50000, anzahl * KFW_LIMIT_PRO_WE_BASIS}, {100000, 400000}) :
            inputs_pct = AppInputs(sanierung, wohnflaeche, anzahl, bb, komm, k[1], k[2],
                                   PctNum(ek, 1), PctNum(42, 10), PctNum(2, 1), PctNum(286, 100),
                                   KFW_ANNUITAET, 30, 4)

\* wide KfW loans with one bank loan, or wide bank loans with one KfW loan
InitFinancing ==
    /\ Start("convert")
    /\ \/ /\ \E e \in {<<TRUE, FALSE>>, <<TRUE, TRUE>>, <<FALSE, FALSE>>} :
                IRR_ENABLED = e[1] /\ pmt_raises = e[2]
          /\ \E t \in KfwLaufzeiten, kfw_zins \in {0, 50}, bb \in {0, 100},
                k \in KfwEingaben(1, {0, 1000}, {400000}) :
               inputs_pct = AppInputs(3000, 0, 1, bb, 0, k[1], k[2], PctNum(20, 1),
                                      PctNum(2, 1), PctNum(50, 1), PctNum(kfw_zins, 1),
                                      t[1], t[2], t[3])
       \/ /\ IRR_ENABLED = TRUE
          /\ pmt_raises = FALSE
          /\ \E bank_zins \in {0, 2, 100}, bank_tilgung \in {0, 10, 50} :
               /\ bank_zins = 2 => bank_tilgung # 10
               /\ inputs_pct = AppInputs(3000, 0, 1, 100, 0, 0, 1000, PctNum(20, 1),
                                         PctNum(bank_zins, 1), PctNum(bank_tilgung, 1), PctNum(50, 1),
                                         KFW_ANNUITAET, 3, 1)

-----------------------------------------------------------------------------
(* run_calculations, src/app.py *)

\* 1. params = convert_inputs_to_params(inputs_pct)
RunConvert ==
    /\ pc = "convert"
    /\ params' = convert_inputs_to_params(inputs_pct)
    /\ pc' = "investment"
    /\ UNCHANGED <<IRR_ENABLED, pmt_raises, inputs_pct, results, loop, df, log>>

\* 2. results = calculate_investment(params, results)
RunInvestment ==
    /\ pc = "investment"
    /\ results' = calculate_investment(params, results)
    /\ pc' = "projection"
    /\ UNCHANGED <<IRR_ENABLED, pmt_raises, inputs_pct, params, loop, df, log>>

\* calculate_projection: nothing is projected for a zero investment
ProjectionStart ==
    /\ pc = "projection"
    /\ IF results["investitionssumme_gesamt"] = Zero
       THEN pc' = "done"
       ELSE pc' = "bank"
    /\ UNCHANGED <<IRR_ENABLED, pmt_raises, inputs_pct, params, results, loop, df, log>>

\* calculate_financing_schedule, bank loan: set up the loop or zero the columns
BankStart ==
    /\ pc = "bank"
    /\ LET darlehen_bank == results["bankdarlehen"]
           summe == RAdd(params["bank_zins"], params["bank_tilgung"])
       IN  IF RLt(Zero, darlehen_bank) /\ RLt(Zero, summe)
           THEN /\ loop' = LoopInit(darlehen_bank, RMul(darlehen_bank, summe))
                /\ pc' = "bank_loop"
                /\ df' = df
           ELSE /\ df' = Put(df, ("Zins Bank" :> NullSpalte) @@ ("Tilgung Bank" :> NullSpalte)
                                 @@ ("Restschuld Bank" :> NullSpalte))
                /\ pc' = "kfw"
                /\ loop' = loop
    /\ UNCHANGED <<IRR_ENABLED, pmt_raises, inputs_pct, params, results, log>>

BankYear ==
    /\ pc = "bank_loop"
    /\ loop.jahr <= BERECHNUNGSZEITRAUM
    /\ loop' = bank_year(loop, params["bank_zins"])
    /\ UNCHANGED <<pc, IRR_ENABLED, pmt_raises, inputs_pct, params, results, df, log>>

BankEnd ==
    /\ pc = "bank_loop"
    /\ loop.jahr > BERECHNUNGSZEITRAUM
    /\ df' = Put(df, ("Zins Bank" :> loop.zinsen_liste) @@ ("Tilgung Bank" :> loop.tilgung_liste)
                     @@ ("Restschuld Bank" :> loop.restschuld_liste))
    /\ pc' = "kfw"
    /\ UNCHANGED <<IRR_ENABLED, pmt_raises, inputs_pct, params, results, loop, log>>

\* KfW loan: set up the loop, or zero the columns and sum up
KfwStart ==
    /\ pc = "kfw"
    /\ LET darlehen_kfw == results["kfw_darlehen"]
       IN  IF RLt(Zero, darlehen_kfw)
           THEN /\ loop' = LoopInit(darlehen_kfw, Zero)
                /\ pc' = "kfw_loop"
                /\ df' = df
           ELSE /\ df' = gesamtsummen(Put(df, ("Zins KfW" :> NullSpalte) @@ ("Tilgung KfW" :> NullSpalte)
                                              @@ ("Restschuld KfW" :> NullSpalte)))
                /\ pc' = "done"
                /\ loop' = loop
    /\ UNCHANGED <<IRR_ENABLED, pmt_raises, inputs_pct, params, results, log>>

\* one year of the KfW loop; an exception leaves run_calculations
KfwYear ==
    /\ pc = "kfw_loop"
    /\ loop.jahr <= BERECHNUNGSZEITRAUM
    /\ LET r == kfw_year(loop, params, results, IRR_ENABLED, pmt_raises)
       IN  /\ loop' = r.loop
           /\ log' = log \o r.log
           /\ pc' = IF r.exc # "none" THEN "raised" ELSE pc
    /\ UNCHANGED <<IRR_ENABLED, pmt_raises, inputs_pct, params, results, df>>

KfwEnd ==
    /\ pc = "kfw_loop"
    /\ loop.jahr > BERECHNUNGSZEITRAUM
    /\ df' = gesamtsummen(Put(df, ("Zins KfW" :> loop.zinsen_liste) @@ ("Tilgung KfW" :> loop.tilgung_liste)
                                  @@ ("Restschuld KfW" :> loop.restschuld_liste)))
    /\ pc' = "done"
    /\ UNCHANGED <<IRR_ENABLED, pmt_raises, inputs_pct, params, results, loop, log>>

NextInvestment == RunConvert \/ RunInvestment

SpecInvestment == InitInvestment /\ [][NextInvestment]_vars

NextFinancing ==
    \/ RunConvert \/ RunInvestment \/ ProjectionStart
    \/ BankStart \/ BankYear \/ BankEnd
    \/ KfwStart \/ KfwYear \/ KfwEnd

SpecFinancing == InitFinancing /\ [][NextFinancing]_vars

-----------------------------------------------------------------------------
(* calculate_depreciation_schedule, src/app.py *)

\* variant whose second band runs one year longer
afa_denkmal_betrag_bis_jahr_13(basis_sanierung, jahr) ==
    IF 1 <= jahr /\ jahr <= 8 THEN RMul(basis_sanierung, AFA_DENKMAL_J1_8)
    ELSE IF 9 <= jahr /\ jahr <= 13 THEN RMul(basis_sanierung, AFA_DENKMAL_J9_12)
    ELSE Zero

\* 1. Denkmal-AfA (Sonder-AfA) of one year
afa_denkmal_betrag(basis_sanierung, jahr) ==
    IF 1 <= jahr /\ jahr <= 8 THEN RMul(basis_sanierung, AFA_DENKMAL_J1_8)
    ELSE IF 9 <= jahr /\ jahr <= 12 THEN RMul(basis_sanierung, AFA_DENKMAL_J9_12)
    ELSE Zero

\* 2. Lineare AfA (Altbau) of one year, capped at the residual value
afa_linear_betrag(basis_altbau, restwert_altbau) ==
    LET afa_betrag == RMul(basis_altbau, AFA_ALTBAU_SATZ)
    IN  IF RLt(restwert_altbau, afa_betrag) THEN restwert_altbau ELSE afa_betrag

\* the locals of calculate_depreciation_schedule before its first loop
AfaLoopInit == [jahr |-> 0, restwert_altbau |-> Zero, afa_denkmal_liste |-> <<>>, afa_linear_liste |-> <<>>]

\* the depreciation bases calculate_investment can leave in results
AfaBasen == {Zero, Q(1, 100), Num(1), Num(99999), Num(844000)}

InitAfa ==
    /\ pc = "afa_denkmal"
    /\ IRR_ENABLED = TRUE
    /\ pmt_raises = FALSE
    /\ inputs_pct = EmptyDict
    /\ params = EmptyDict
    /\ df = EmptyDict
    /\ log = <<>>
    /\ loop = AfaLoopInit
    /\ \E basis_sanierung \in AfaBasen, basis_altbau \in AfaBasen :
         results = [afa_basis_sanierung |-> basis_sanierung, afa_basis_altbau |-> basis_altbau]

\* one pass of the first loop
AfaDenkmalYear ==
    /\ pc = "afa_denkmal"
    /\ loop.jahr < BERECHNUNGSZEITRAUM
    /\ loop' = [loop EXCEPT !.jahr = @ + 1,
                            !.afa_denkmal_liste =
                                Append(@, afa_denkmal_betrag(results["afa_basis_sanierung"], loop.jahr + 1))]
    /\ UNCHANGED <<pc, IRR_ENABLED, pmt_raises, inputs_pct, params, results, df, log>>

\* restwert_altbau = basis_altbau
AfaLinearStart ==
    /\ pc = "afa_denkmal"
    /\ loop.jahr = BERECHNUNGSZEITRAUM
    /\ loop' = [loop EXCEPT !.jahr = 0, !.restwert_altbau = results["afa_basis_altbau"]]
    /\ pc' = "afa_linear"
    /\ UNCHANGED <<IRR_ENABLED, pmt_raises, inputs_pct, params, results, df, log>>

\* one pass of the second loop
AfaLinearYear ==
    /\ pc = "afa_linear"
    /\ loop.jahr < BERECHNUNGSZEITRAUM
    /\ LET afa_betrag == afa_linear_betrag(results["afa_basis_altbau"], loop.restwert_altbau)
       IN  loop' = [loop EXCEPT !.jahr = @ + 1,
                                !.restwert_altbau = RSub(@, afa_betrag),
                                !.afa_linear_liste = Append(@, afa_betrag)]
    /\ UNCHANGED <<pc, IRR_ENABLED, pmt_raises, inputs_pct, params, results, df, log>>

\* the three columns written to the table
AfaEnd ==
    /\ pc = "afa_linear"
    /\ loop.jahr = BERECHNUNGSZEITRAUM
    /\ df' = Put(df, ("AfA Denkmal (Sonder)" :> loop.afa_denkmal_liste)
                     @@ ("AfA Altbau (Linear)" :> loop.afa_linear_liste)
                     @@ ("AfA Gesamt" :> [j \in Jahre |->
                            RAdd(loop.afa_denkmal_liste[j], loop.afa_linear_liste[j])]))
    /\ pc' = "afa_done"
    /\ UNCHANGED <<IRR_ENABLED, pmt_raises, inputs_pct, params, results, loop, log>>

NextAfa == AfaDenkmalYear \/ AfaLinearStart \/ AfaLinearYear \/ AfaEnd

SpecAfa == InitAfa /\ [][NextAfa]_vars

-----------------------------------------------------------------------------
(* main and validate_gik_anteile, src/app.py *)

GIK_UNGUELTIG == "Ungueltige numerische Eingabe."

GIK_SUMME_FEHLER == "Die Summe uebersteigt 100%"

GIK_ALTBAU_HINWEIS == "Hinweis: Anteil Altbausubstanz ist sehr gering."

GIK_BERECHNUNG_FEHLER == "Berechnung nicht moeglich: GIK-Aufteilung > 100%."

\* variant of the tolerance test that accepts every sum
gik_summe_immer_zulaessig(summe_anteile_pct) == FALSE

\* summe_anteile_pct > 100.0001
gik_summe_zu_hoch(summe_anteile_pct) == RLt(Q(1000001, 10000), summe_anteile_pct)

\* validate_gik_anteile: (is_valid, altbauanteil_pct, msg_type, msg) and
\* whether st.session_state['input_altbauanteil_pct'] is written
validate_gik_anteile(sanierung_pct, grundstueck_pct, session) ==
    IF sanierung_pct.t # "num" \/ grundstueck_pct.t # "num"
    THEN [ok |-> FALSE, altbau |-> Zero, msg_type |-> "error", msg |-> GIK_UNGUELTIG, schreibt |-> FALSE]
    ELSE LET summe_anteile_pct == RAdd(sanierung_pct.v, grundstueck_pct.v)
             altbauanteil_pct == RMax(Zero, RSub(Num(100), summe_anteile_pct))
         IN  IF gik_summe_zu_hoch(summe_anteile_pct)
             THEN [ok |-> FALSE, altbau |-> Zero, msg_type |-> "error", msg |-> GIK_SUMME_FEHLER,
                   schreibt |-> FALSE]
             ELSE IF /\ RLt(altbauanteil_pct, Num(5))
                     /\ RLe(Zero, altbauanteil_pct)
                     /\ RLt(Zero, Get(session, "input_gik_netto", Zero))
             THEN [ok |-> TRUE, altbau |-> altbauanteil_pct, msg_type |-> "warning",
                   msg |-> GIK_ALTBAU_HINWEIS, schreibt |-> TRUE]
             ELSE [ok |-> TRUE, altbau |-> altbauanteil_pct, msg_type |-> "success",
                   msg |-> "Plausibel.", schreibt |-> TRUE]

\* the locals of main and what it has shown with st.error and st.warning
MainLocals(gik_is_valid, meldungen) == [gik_is_valid |-> gik_is_valid, meldungen |-> meldungen]

\* what the two share inputs can hold
SanierungAnteile == {PctNum(80, 1), PctNum(95, 1), PctNum(100, 1), PctNone}

GrundstueckAnteile == {PctNum(0, 1), PctNum(5, 1), PctNum(50001, 10000), PctNum(50002, 10000), PctNum(8, 1)}

\* the session state with the two shares set
MainSession(session, sanierung_pct, grundstueck_pct) ==
    [session EXCEPT !["input_sanierungskostenanteil_pct"] = sanierung_pct,
                    !["input_grundstuecksanteil_pct"] = grundstueck_pct]

InitMain ==
    /\ Start("main")
    /\ IRR_ENABLED = TRUE
    /\ pmt_raises = FALSE
    /\ \E sanierung_pct \in SanierungAnteile, grundstueck_pct \in GrundstueckAnteile,
          gik_netto \in {0, 500000} :
         inputs_pct = MainSession(
            AppInputs(3000, 0, 1, 100, 0, 0, 1000,
                      PctNum(20, 1), PctNum(42, 10), PctNum(2, 1), PctNum(286, 100),
                      KFW_ANNUITAET, 30, 4) @@ [input_gik_netto |-> Num(gik_netto)],
            sanierung_pct, grundstueck_pct)

\* gik_is_valid, kfw_is_valid = display_inputs(): the validation of the shares
MainDisplayInputs ==
    /\ pc = "main"
    /\ LET v == validate_gik_anteile(inputs_pct["input_sanierungskostenanteil_pct"],
                                     inputs_pct["input_grundstuecksanteil_pct"], inputs_pct)
       IN  /\ inputs_pct' = IF v.schreibt
                            THEN [inputs_pct EXCEPT !["input_altbauanteil_pct"] =
                                                        [t |-> "num", v |-> v.altbau]]
                            ELSE inputs_pct
           /\ loop' = MainLocals(v.ok, IF v.msg_type \in {"error", "warning"}
                                       THEN <<[art |-> v.msg_type, text |-> v.msg]>>
                                       ELSE <<>>)
    /\ pc' = "main_berechnung"
    /\ UNCHANGED <<IRR_ENABLED, pmt_raises, params, results, df, log>>

\* 2. Aufruf der Berechnung: the error, or the call of run_calculations
MainBerechnung ==
    /\ pc = "main_berechnung"
    /\ IF ~loop.gik_is_valid
       THEN /\ loop' = [loop EXCEPT !.meldungen =
                            Append(@, [art |-> "error", text |-> GIK_BERECHNUNG_FEHLER])]
            /\ pc' = "main_done"
       ELSE /\ loop' = loop
            /\ pc' = "convert"
    /\ UNCHANGED <<IRR_ENABLED, pmt_raises, inputs_pct, params, results, df, log>>

\* the user edits the shares and the script is rerun from the top
MainRerun ==
    /\ pc \in {"main_done", "projection"}
    /\ \E sanierung_pct \in SanierungAnteile, grundstueck_pct \in GrundstueckAnteile :
         inputs_pct' = MainSession(inputs_pct, sanierung_pct, grundstueck_pct)
    /\ pc' = "main"
    /\ params' = EmptyDict
    /\ results' = EmptyDict
    /\ loop' = NoLoop
    /\ UNCHANGED <<IRR_ENABLED, pmt_raises, df, log>>

\* a rerun of main with run_calculations followed up to calculate_investment
NextMain == MainDisplayInputs \/ MainBerechnung \/ RunConvert \/ RunInvestment \/ MainRerun

SpecMain == InitMain /\ [][NextMain]_vars

-----------------------------------------------------------------------------
(* run_calculations, step 1: convert_inputs_to_params on arbitrary inputs *)

\* the percentage keys whose presence and value vary
ConvertKeys == {"ek_quote_pct", "bank_zins_pct", "kfw_zins_pct"}

\* what the session state can hold under a percentage key
PctWerte ==
    {PctNone, PctLeer, PctText, PctNum(0, 1), PctNum(15, 1), PctNum(292, 100), PctNum(100, 1)}

\* a mapping with the keys of present out of ConvertKeys, every other
\* percentage key, one key that is no percentage and, for alt, a stripped
\* key that is already there
ConvertInputs(present, werte, alt) ==
    LET fest == pct_keys \ ConvertKeys
        prozente == [k \in fest \cup present |-> IF k \in present THEN werte[k] ELSE PctNum(5, 1)]
        rest == [geplanter_verkauf |-> 10]
    IN  IF alt THEN prozente @@ rest @@ [ek_quote |-> Q(1, 2)] ELSE prozente @@ rest

InitConvert ==
    /\ Start("convert")
    /\ IRR_ENABLED = TRUE
    /\ pmt_raises = FALSE
    /\ \E present \in SUBSET ConvertKeys, werte \in [ConvertKeys -> PctWerte], alt \in BOOLEAN :
         inputs_pct = ConvertInputs(present, werte, alt)

NextConvert == RunConvert

SpecConvert == InitConvert /\ [][NextConvert]_vars

-----------------------------------------------------------------------------
(* run_calculations, src/park55-app.py, up to the investment calculation *)

\* session state of src/park55-app.py as far as calculate_investment reads it
P55Inputs(gik_netto, anzahl, bb, basis, ek) ==
    [ input_gik_netto |-> Num(gik_netto),
      input_anzahl_whg |-> anzahl,
      kosten_baubegleitung_pro_we |-> Num(bb),
      input_kfw_darlehen_261_basis |-> Num(basis),
      input_sanierungskostenanteil_pct |-> PctNum(80, 1),
      input_grundstuecksanteil_pct |-> PctNum(8, 1),
      input_altbauanteil_pct |-> PctNum(12, 1),
      ek_quote_pct |-> PctNum(ek, 1) ]

\* the widgets admit a per-unit supervision cost of 0..4000; 750000 stands
\* for the larger costs calculate_investment accepts as a function
InitPark55 ==
    /\ Start("p55_convert")
    /\ IRR_ENABLED = TRUE
    /\ pmt_raises = FALSE
    /\ \E gik_netto \in {0, 200000, 1000000}, anzahl \in (1..MaxAnzahlWhg) \cup {6},
          bb \in {0, KOSTEN_BB_PRO_WE_DEFAULT, 4000, 750000}, ek \in {0, 15, 20, 100} :
         \E basis \in {0, 50000, anzahl * KFW_LIMIT_PRO_WE_BASIS} :
            inputs_pct = P55Inputs(gik_netto, anzahl, bb, basis, ek)

P55Convert ==
    /\ pc = "p55_convert"
    /\ params' = convert_inputs_to_params(inputs_pct)
    /\ pc' = "p55_investment"
    /\ UNCHANGED <<IRR_ENABLED, pmt_raises, inputs_pct, results, loop, df, log>>

P55Investment ==
    /\ pc = "p55_investment"
    /\ results' = p55_calculate_investment(params, results)
    /\ pc' = "p55_done"
    /\ UNCHANGED <<IRR_ENABLED, pmt_raises, inputs_pct, params, loop, df, log>>

NextPark55 == P55Convert \/ P55Investment

SpecPark55 == InitPark55 /\ [][NextPark55]_vars

-----------------------------------------------------------------------------
(* calculate_kpis and calculate_irr, src/app.py *)

\* a KPI value: a float, an int, a text, or float('inf')
KpiFloat(x) == [t |-> "float", v |-> x, s |-> ""]

KpiInt(x) == [t |-> "int", v |-> x, s |-> ""]

KpiStr(text) == [t |-> "str", v |-> Zero, s |-> text]

KpiInf == [t |-> "float", v |-> Zero, s |-> "inf"]

IRR_FEHLER == "IRR calculation failed"

\* Series.head(n): the first n rows, all but the last -n rows for n < 0
SeriesHead(col, n) ==
    LET len == IF n >= 0 THEN (IF n < BERECHNUNGSZEITRAUM THEN n ELSE BERECHNUNGSZEITRAUM)
               ELSE (IF BERECHNUNGSZEITRAUM + n > 0 THEN BERECHNUNGSZEITRAUM + n ELSE 0)
    IN  [j \in 1..len |-> col[j]]

\* Series.sum()
RECURSIVE SumRange(_, _, _)
SumRange(seq, lo, hi) ==
    IF lo > hi THEN Zero
    ELSE IF lo = hi THEN seq[lo]
    ELSE LET mid == (lo + hi) \div 2
         IN  RAdd(SumRange(seq, lo, mid), SumRange(seq, mid + 1, hi))

SeqSum(seq) == SumRange(seq, 1, Len(seq))

\* variant of the try/except around int(...): the default of 10 years
haltedauer_standard(geplanter_verkauf) == 10

\* int(params['geplanter_verkauf']) with the fallback 10, capped at the horizon
haltedauer_begrenzen(geplanter_verkauf) ==
    LET haltedauer == IF geplanter_verkauf.t = "int" THEN geplanter_verkauf.v ELSE 10
    IN  IF haltedauer > BERECHNUNGSZEITRAUM THEN BERECHNUNGSZEITRAUM ELSE haltedauer

\* the outcomes of npf.irr(irr_stream): it raises, or it returns NaN, a
\* non-real number or a real rate
IrrRaises == [art |-> "raises", wert |-> Zero]

IrrNaN == [art |-> "nan", wert |-> Zero]

IrrKomplex == [art |-> "komplex", wert |-> Zero]

IrrReell(x) == [art |-> "reell", wert |-> x]

\* npf.irr was not called
IrrKeinAufruf == [art |-> "none", wert |-> Zero]

IrrErgebnisse == {IrrRaises, IrrNaN, IrrKomplex} \cup {IrrReell(Q(r, 100)) : r \in {-50, 0, 5}}

\* variant of the result handling that maps a raising solver to 0.0
irr_kennzahl_fehler_als_null(irr) ==
    IF irr.art = "reell" THEN [kpi |-> KpiFloat(irr.wert), log |-> <<>>]
    ELSE IF irr.art = "raises" THEN [kpi |-> KpiFloat(Zero), log |-> <<IRR_FEHLER>>]
    ELSE [kpi |-> KpiFloat(Zero), log |-> <<>>]

\* the try/except of calculate_irr: the KPI stored and what is logged
irr_kennzahl(irr) ==
    IF irr.art = "raises" THEN [kpi |-> KpiStr("Fehler"), log |-> <<IRR_FEHLER>>]
    ELSE IF irr.art \in {"nan", "komplex"} THEN [kpi |-> KpiFloat(Zero), log |-> <<>>]
    ELSE [kpi |-> KpiFloat(irr.wert), log |-> <<>>]

\* calculate_irr: the results, the locals and the log; irr is what npf.irr
\* does when it is called
calculate_irr(res, initial_investment, d, haltedauer, exit_erloes, enabled, irr) ==
    IF ~enabled
    THEN [results |-> Put(res, "kpi_irr_nach_steuer" :> KpiStr("N/A")),
          irr_stream |-> <<>>, called |-> FALSE, log |-> <<>>]
    ELSE LET cashflows == SeriesHead(d["Cashflow nach Steuer"], haltedauer)
             roh == <<RNeg(initial_investment)>> \o cashflows
             irr_stream == IF Len(roh) > 1
                           THEN [roh EXCEPT ![Len(roh)] = RAdd(@, exit_erloes)]
                           ELSE roh
             k == irr_kennzahl(irr)
         IN  [results |-> Put(res, "kpi_irr_nach_steuer" :> k.kpi),
              irr_stream |-> irr_stream, called |-> TRUE, log |-> k.log]

\* the locals of calculate_kpis kept for inspection
KpiLocals(haltedauer, exit_erloes, cum_cashflow, cum_steuer, irr_stream, called, irr) ==
    [haltedauer |-> haltedauer, exit_erloes |-> exit_erloes,
     cum_cashflow_nach_steuer |-> cum_cashflow, cum_steuerersparnis |-> cum_steuer,
     irr_stream |-> irr_stream, irr_called |-> called, irr |-> irr]

\* variant of the return on equity that divides whatever the equity is not
gesamtrendite_ohne_inf(total_profit, eigenkapital_bedarf) ==
    IF RLt(Zero, eigenkapital_bedarf) THEN KpiFloat(RDiv(total_profit, eigenkapital_bedarf))
    ELSE KpiInt(Zero)

\* 5. Gesamtrendite nach Steuern (RoE)
gesamtrendite(total_profit, eigenkapital_bedarf) ==
    IF RLt(Zero, eigenkapital_bedarf) THEN KpiFloat(RDiv(total_profit, eigenkapital_bedarf))
    ELSE IF RLt(Zero, total_profit) THEN KpiInf ELSE KpiInt(Zero)

calculate_kpis(p, res, d, enabled, irr) ==
    LET gik_brutto == Get(res, "gik_brutto", Zero)
        investitionssumme_gesamt == Get(res, "investitionssumme_gesamt", Zero)
        gesamtzuschuss == Get(res, "gesamtzuschuss", Zero)
        jahreskaltmiete_netto == Get(res, "jahreskaltmiete_netto", Zero)
        einnahmen_ueberschuss_j1 == Get(res, "einnahmen_ueberschuss_vor_finanz_steuer", Zero)
        wohnflaeche == Get(p, "input_wohnflaeche", Zero)
        eigenkapital_bedarf == Get(res, "eigenkapital_bedarf", Zero)
        haltedauer == haltedauer_begrenzen(p["geplanter_verkauf"])
        invest == RLt(Zero, investitionssumme_gesamt)
        flaeche == RLt(Zero, wohnflaeche)
        kpi_kaufpreis_qm_netto ==
            IF flaeche THEN KpiFloat(RDiv(RSub(investitionssumme_gesamt, gesamtzuschuss), wohnflaeche))
            ELSE KpiInt(Zero)
        r1 == Put(res,
                ("kpi_bruttomietrendite" :>
                    (IF invest THEN KpiFloat(RDiv(jahreskaltmiete_netto, investitionssumme_gesamt))
                     ELSE KpiInt(Zero)))
                @@ ("kpi_nettomietrendite" :>
                    (IF invest THEN KpiFloat(RDiv(einnahmen_ueberschuss_j1, investitionssumme_gesamt))
                     ELSE KpiInt(Zero)))
                @@ ("kpi_kaufpreis_qm_brutto" :>
                    (IF flaeche THEN KpiFloat(RDiv(gik_brutto, wohnflaeche)) ELSE KpiInt(Zero)))
                @@ ("kpi_kaufpreis_qm_netto" :> kpi_kaufpreis_qm_netto))
    IN  IF DOMAIN d = {}
        THEN [results |-> Put(r1, ("kpi_irr_nach_steuer" :> KpiFloat(Zero))
                                  @@ ("kpi_steuerfreier_gewinn" :> KpiFloat(Zero))
                                  @@ ("kpi_kaufpreis_qm_effektiv" :> kpi_kaufpreis_qm_netto)
                                  @@ ("kpi_gesamtrendite_nach_steuer" :> KpiFloat(Zero))),
              locals |-> KpiLocals(haltedauer, Zero, Zero, Zero, <<>>, FALSE, IrrKeinAufruf),
              log |-> <<>>]
        ELSE
        LET exit_erloes == IF haltedauer \in Jahre THEN d["Nettovermoegen"][haltedauer]
                           ELSE d["Nettovermoegen"][BERECHNUNGSZEITRAUM]
            cum_cashflow_nach_steuer == SeqSum(SeriesHead(d["Cashflow nach Steuer"], haltedauer))
            cum_steuerersparnis == SeqSum(SeriesHead(d["Steuerersparnis"], haltedauer))
            kpi_kaufpreis_qm_effektiv ==
                IF flaeche
                THEN KpiFloat(RSub(kpi_kaufpreis_qm_netto.v, RDiv(cum_steuerersparnis, wohnflaeche)))
                ELSE KpiInt(Zero)
            total_profit == RSub(RAdd(cum_cashflow_nach_steuer, exit_erloes), eigenkapital_bedarf)
            r2 == Put(r1, ("kpi_kaufpreis_qm_effektiv" :> kpi_kaufpreis_qm_effektiv)
                          @@ ("kpi_steuerfreier_gewinn" :> KpiFloat(total_profit))
                          @@ ("kpi_gesamtrendite_nach_steuer" :>
                                gesamtrendite(total_profit, eigenkapital_bedarf)))
            c == calculate_irr(r2, eigenkapital_bedarf, d, haltedauer, exit_erloes, enabled, irr)
        IN  [results |-> c.results,
             locals |-> KpiLocals(haltedauer, exit_erloes, cum_cashflow_nach_steuer,
                                  cum_steuerersparnis, c.irr_stream, c.called,
                                  IF c.called THEN irr ELSE IrrKeinAufruf),
             log |-> c.log]

-----------------------------------------------------------------------------
(* run_calculations, src/app.py: step 6, the KPIs *)

\* a column of the projection that is linear in the year
LinearSpalte(c0, c1) == [j \in Jahre |-> Num(c0 + c1 * j)]

\* the projection table: empty for a zero investment
ProjektionsTabelle(invest, cf, nv, st) ==
    IF invest = 0 THEN EmptyDict
    ELSE ("Cashflow nach Steuer" :> LinearSpalte(cf[1], cf[2]))
         @@ ("Nettovermoegen" :> LinearSpalte(nv[1], nv[2]))
         @@ ("Steuerersparnis" :> LinearSpalte(st[1], st[2]))

\* the results of the steps 2 to 5 as far as calculate_kpis reads them
KpiEingangsResults(invest, ek) ==
    [ gik_brutto |-> Num(invest),
      investitionssumme_gesamt |-> Num(invest),
      gesamtzuschuss |-> IF invest = 0 THEN Zero ELSE Num(60000),
      jahreskaltmiete_netto |-> IF invest = 0 THEN Zero ELSE Num(16800),
      einnahmen_ueberschuss_vor_finanz_steuer |-> IF invest = 0 THEN Zero ELSE Num(14000),
      eigenkapital_bedarf |-> RMul(Num(invest), Q(ek, 100)) ]

InitKpis ==
    /\ pc = "kpis"
    /\ pmt_raises = FALSE
    /\ inputs_pct = EmptyDict
    /\ loop = NoLoop
    /\ log = <<>>
    /\ IRR_ENABLED \in BOOLEAN
    /\ \E invest \in {0, 400000}, ek \in {0, 20}, wohnflaeche \in {0, 140},
          geplanter_verkauf \in {10, 34, 35, 36, 40},
          cf \in {<<-2000, 100>>, <<1000, 0>>}, nv \in {<<-300000, 5000>>, <<100000, 5000>>},
          st \in {<<3500, -100>>, <<0, 0>>} :
         /\ params = [input_wohnflaeche |-> Num(wohnflaeche),
                      geplanter_verkauf |-> [t |-> "int", v |-> geplanter_verkauf]]
         /\ results = KpiEingangsResults(invest, ek)
         /\ df = ProjektionsTabelle(invest, cf, nv, st)

\* results = calculate_kpis(params, results), with whatever npf.irr does
RunKpis ==
    /\ pc = "kpis"
    /\ \E irr \in IrrErgebnisse :
         LET r == calculate_kpis(params, results, df, IRR_ENABLED, irr)
         IN  /\ results' = r.results
             /\ loop' = r.locals
             /\ log' = log \o r.log
    /\ pc' = "kpis_done"
    /\ UNCHANGED <<IRR_ENABLED, pmt_raises, inputs_pct, params, df>>

NextKpis == RunKpis

SpecKpis == InitKpis /\ [][NextKpis]_vars

-----------------------------------------------------------------------------
(* run_calculations, src/park55-app.py: the whole run *)

P55_BERECHNUNGSZEITRAUM == 30

P55Jahre == 1..P55_BERECHNUNGSZEITRAUM

SOLI_ZUSCHLAG == Q(55, 1000)

STEUER_MODI == <<"Basis Einkommen (zvE)", "Steuersatz">>

KIRCHENSTEUER_MAP ==
    [ Keine |-> Zero ] @@ ("8% (Wohnsitz BY/BW)" :> Q(8, 100)) @@ ("9% (Wohnsitz andere BL)" :> Q(9, 100))

KIRCHENSTEUER_DEFAULT == "9% (Wohnsitz andere BL)"

\* 2. Mieten und Kosten (Jahr 1)
p55_calculate_revenues_costs(p, res) ==
    LET miete_wohnen_mtl == RMul(p["input_wohnflaeche"], p["miete_wohnen"])
        miete_keller_mtl == RMul(p["input_kellerflaeche"], p["miete_keller"])
        miete_stellplatz_mtl == RMul(Num(p["input_anzahl_stellplaetze"]), p["miete_stellplatz"])
        jahreskaltmiete ==
            RMul(RAdd(RAdd(miete_wohnen_mtl, miete_keller_mtl), miete_stellplatz_mtl), Num(12))
        jahresverwaltungskosten ==
            RMul(RMul(p["nk_pro_wohnung"], Num(p["input_anzahl_whg"])), Num(12))
        sicherheitsabschlag_absolut == RMul(jahreskaltmiete, p["sicherheitsabschlag"])
        jahreskaltmiete_netto == RSub(jahreskaltmiete, sicherheitsabschlag_absolut)
        betriebskosten_gesamt == jahresverwaltungskosten
    IN  Put(res,
          [ miete_wohnen_mtl |-> miete_wohnen_mtl,
            miete_keller_mtl |-> miete_keller_mtl,
            miete_stellplatz_mtl |-> miete_stellplatz_mtl,
            jahreskaltmiete |-> jahreskaltmiete,
            jahresverwaltungskosten |-> jahresverwaltungskosten,
            sicherheitsabschlag_absolut |-> sicherheitsabschlag_absolut,
            jahreskaltmiete_netto |-> jahreskaltmiete_netto,
            betriebskosten_gesamt |-> betriebskosten_gesamt,
            einnahmen_ueberschuss_vor_finanz_steuer |->
                RSub(jahreskaltmiete_netto, betriebskosten_gesamt) ])

\* 4. Steuerberechnung (Grenzsteuersatz)
p55_grenzsteuersatz(p, res) ==
    LET netto == IF p["steuer_modus"] = "Steuersatz" THEN p["steuersatz_manuell"] ELSE Q(42, 100)
        kirchensteuer_satz == Get(KIRCHENSTEUER_MAP, p["kirchensteuer_option"], Zero)
    IN  Put(res,
          [ grenzsteuersatz_netto |-> netto,
            grenzsteuersatz_brutto |->
                RMul(netto, RAdd(RAdd(Num(1), SOLI_ZUSCHLAG), kirchensteuer_satz)) ])

\* a column of the 30-year projection that is linear in the year
P55LinearSpalte(c0, c1) == [j \in P55Jahre |-> Num(c0 + c1 * j)]

\* the tables calculate_projection can leave in results['projection_df']:
\* the empty DataFrame for a zero investment; otherwise a table over the
\* years 1..30, of which calculate_irr reads two columns
P55ProjektionsTabellen(res) ==
    IF res["investitionssumme_gesamt"] = Zero THEN {EmptyDict}
    ELSE { ("Cashflow nach Steuer" :> P55LinearSpalte(cf[1], cf[2]))
           @@ ("Nettovermoegen" :> P55LinearSpalte(nv[1], nv[2])) :
             cf \in {<<-2000, 100>>, <<1000, 0>>}, nv \in {<<-300000, 5000>>, <<100000, 5000>>} }

\* (investitionssumme_gesamt - gesamtzuschuss) / wohnflaeche
p55_nettokaufpreis(investitionssumme_gesamt, gesamtzuschuss, wohnflaeche) ==
    KpiFloat(RDiv(RSub(investitionssumme_gesamt, gesamtzuschuss), wohnflaeche))

\* 6. KPIs
p55_kpis(p, res) ==
    LET wohnflaeche == p["input_wohnflaeche"]
    IN  Put(res,
          [ kpi_bruttomietrendite |->
                IF RLt(Zero, res["gik_brutto"])
                THEN KpiFloat(RDiv(res["jahreskaltmiete_netto"], res["gik_brutto"]))
                ELSE KpiInt(Zero),
            kpi_nettokaufpreis_qm_brutto |->
                IF RLt(Zero, wohnflaeche) THEN KpiFloat(RDiv(res["gik_brutto"], wohnflaeche))
                ELSE KpiInt(Zero),
            kpi_nettokaufpreis_qm_netto |->
                IF RLt(Zero, wohnflaeche)
                THEN p55_nettokaufpreis(res["investitionssumme_gesamt"], res["gesamtzuschuss"],
                                        wohnflaeche)
                ELSE KpiInt(Zero) ])

\* calculate_irr of src/park55-app.py: the results, the log, and whether
\* npf.irr was called
p55_calculate_irr(p, res, d, enabled, irr) ==
    IF ~enabled
    THEN [results |-> Put(res, "kpi_irr_nach_steuer" :> KpiStr("N/A")),
          called |-> FALSE, log |-> <<>>]
    ELSE IF DOMAIN d = {}
    THEN [results |-> Put(res, "kpi_irr_nach_steuer" :> KpiFloat(Zero)),
          called |-> FALSE, log |-> <<>>]
    ELSE LET k == irr_kennzahl(irr)
         IN  [results |-> Put(res, "kpi_irr_nach_steuer" :> k.kpi),
              called |-> TRUE, log |-> k.log]

P55RunInputs(gik_netto, anzahl, basis, bb, ek, wohnflaeche, modus) ==
    [ input_gik_netto |-> Num(gik_netto),
      input_anzahl_whg |-> anzahl,
      kosten_baubegleitung_pro_we |-> Num(bb),
      input_kfw_darlehen_261_basis |-> Num(basis),
      input_wohnflaeche |-> Num(wohnflaeche),
      input_kellerflaeche |-> Zero,
      input_anzahl_stellplaetze |-> 0,
      miete_wohnen |-> Q(95, 10),
      miete_keller |-> Zero,
      miete_stellplatz |-> Zero,
      nk_pro_wohnung |-> Num(30),
      steuer_modus |-> modus,
      kirchensteuer_option |-> KIRCHENSTEUER_DEFAULT,
      input_sanierungskostenanteil_pct |-> PctNum(80, 1),
      input_grundstuecksanteil_pct |-> PctNum(8, 1),
      input_altbauanteil_pct |-> PctNum(12, 1),
      ek_quote_pct |-> PctNum(ek, 1),
      steuersatz_manuell_pct |-> PctNum(42, 1),
      sicherheitsabschlag_pct |-> PctNum(5, 1) ]

\* the start-up defaults and what the widgets admit around them
InitPark55Run ==
    /\ Start("p55_run")
    /\ IRR_ENABLED \in BOOLEAN
    /\ pmt_raises = FALSE
    /\ \E gik_netto \in {0, 200000}, anzahl \in 1..MaxAnzahlWhg,
          bb \in {0, KOSTEN_BB_PRO_WE_DEFAULT}, ek \in {0, 15},
          wohnflaeche \in {0, 140}, modus \in {STEUER_MODI[1], STEUER_MODI[2]} :
         \E basis \in {0, anzahl * KFW_LIMIT_PRO_WE_BASIS} :
            inputs_pct = P55RunInputs(gik_netto, anzahl, basis, bb, ek, wohnflaeche, modus)

\* steps 1 to 4 of run_calculations
P55RunInvestment ==
    /\ pc = "p55_run"
    /\ params' = convert_inputs_to_params(inputs_pct)
    /\ results' = p55_grenzsteuersatz(params',
                     p55_calculate_revenues_costs(params',
                        p55_calculate_investment(params', EmptyDict)))
    /\ pc' = "p55_projection"
    /\ UNCHANGED <<IRR_ENABLED, pmt_raises, inputs_pct, loop, df, log>>

\* step 5: results['projection_df']
P55RunProjection ==
    /\ pc = "p55_projection"
    /\ df' \in P55ProjektionsTabellen(results)
    /\ pc' = "p55_kpis"
    /\ UNCHANGED <<IRR_ENABLED, pmt_raises, inputs_pct, params, results, loop, log>>

\* step 6 and calculate_irr, with whatever npf.irr does
P55RunKpis ==
    /\ pc = "p55_kpis"
    /\ \E irr \in IrrErgebnisse :
         LET r == p55_calculate_irr(params, p55_kpis(params, results), df, IRR_ENABLED, irr)
         IN  /\ results' = r.results
             /\ log' = log \o r.log
    /\ pc' = "p55_run_done"
    /\ UNCHANGED <<IRR_ENABLED, pmt_raises, inputs_pct, params, loop, df>>

NextPark55Run == P55RunInvestment \/ P55RunProjection \/ P55RunKpis

SpecPark55Run == InitPark55Run /\ [][NextPark55Run]_vars

-----------------------------------------------------------------------------
(* display_sidebar_inputs and calculate_financing_schedule, src/park55-app.py *)

\* max_value of the widget "Gesamtlaufzeit (Jahre)"
P55_MAX_GESAMTLAUFZEIT == 35

\* max_tilgungsfrei = max(0, gesamtlaufzeit - 1)
max_tilgungsfrei(gesamtlaufzeit) == IF gesamtlaufzeit - 1 > 0 THEN gesamtlaufzeit - 1 ELSE 0

\* the grace period the sidebar leaves in the session state
tilgungsfrei_begrenzen(tilgungsfreie_jahre, gesamtlaufzeit) ==
    IF tilgungsfreie_jahre > max_tilgungsfrei(gesamtlaufzeit)
    THEN max_tilgungsfrei(gesamtlaufzeit)
    ELSE tilgungsfreie_jahre

\* df[col] = 0 on the 30-year index
P55NullSpalte == [j \in P55Jahre |-> Zero]

\* variant that applies the grant in every year after the grace period
p55_restschuld_nach_zuschuss_jedes_jahr(jahr, tilgungsfrei_kfw, restschuld, zuschuss_kfw_gesamt) ==
    IF jahr > tilgungsfrei_kfw
    THEN RMax(Zero, RSub(restschuld, zuschuss_kfw_gesamt))
    ELSE restschuld

\* "Erster Tilgungsjahr: Gesamten Zuschuss anwenden": the balance an
\* amortization year starts from
p55_restschuld_nach_zuschuss(jahr, tilgungsfrei_kfw, restschuld, zuschuss_kfw_gesamt) ==
    IF jahr = tilgungsfrei_kfw + 1
    THEN RMax(Zero, RSub(restschuld, zuschuss_kfw_gesamt))
    ELSE restschuld

\* "Fallback ohne numpy_financial (inkl. Robustheit fuer Zins=0)"
p55_annuitaet_fallback(restschuld, zins_kfw, restlaufzeit) ==
    LET q == RAdd(Num(1), zins_kfw)
    IN  IF q = Num(1)
        THEN IF restlaufzeit > 0 THEN RDiv(restschuld, Num(restlaufzeit)) ELSE Zero
        ELSE LET qn == RPow(q, restlaufzeit)
             IN  RDiv(RMul(restschuld, RMul(qn, RSub(q, Num(1)))), RSub(qn, Num(1)))

\* the annuity of the amortization phase: npf.pmt, the RuntimeError that
\* replaces whatever npf.pmt raises, or the fallback
p55_annuitaet_nach_tf(restschuld, zins_kfw, restlaufzeit, enabled, raises) ==
    IF enabled /\ ~raises
    THEN Rueckgabe(RNeg(npf_pmt(zins_kfw, restlaufzeit, restschuld)), <<>>)
    ELSE IF enabled
    THEN Ausnahme("RuntimeError", <<PMT_FEHLER>>)
    ELSE Rueckgabe(p55_annuitaet_fallback(restschuld, zins_kfw, restlaufzeit), <<>>)

\* body of the KfW loop for year l.jahr: the new locals, what was logged and
\* the exception that left the body, if any
p55_kfw_year(l, p, res, enabled, raises) ==
    LET jahr == l.jahr
        zins_kfw == p["kfw_zins"]
        laufzeit_kfw == p["kfw_gesamtlaufzeit"]
        tilgungsfrei_kfw == p["kfw_tilgungsfreie_jahre"]
        zuschuss_kfw_gesamt == RAdd(res["kfw_tilgungszuschuss"], res["zuschuss_baubegleitung"])
        restlaufzeit == laufzeit_kfw - tilgungsfrei_kfw
    IN  IF RLe(l.restschuld, RESTSCHULD_EPS)
        THEN [loop |-> LoopSkip(l), log |-> <<>>, exc |-> "none"]
        ELSE IF jahr <= tilgungsfrei_kfw
        THEN [loop |-> LoopStep(l, RMul(l.restschuld, zins_kfw), Zero, l.restschuld, l.annuitaet),
              log |-> <<>>, exc |-> "none"]
        ELSE
        LET restschuld == p55_restschuld_nach_zuschuss(jahr, tilgungsfrei_kfw, l.restschuld,
                                                       zuschuss_kfw_gesamt)
            annuitaet == IF jahr = tilgungsfrei_kfw + 1 /\ RLt(Zero, restschuld)
                         THEN p55_annuitaet_nach_tf(restschuld, zins_kfw, restlaufzeit, enabled, raises)
                         ELSE KeinAufruf(l.annuitaet)
            zins_betrag == RMul(restschuld, zins_kfw)
            tilgung_betrag == tilgung_begrenzen(RSub(annuitaet.value, zins_betrag), restschuld)
        IN  IF annuitaet.exc # "none"
            THEN [loop |-> l, log |-> annuitaet.log, exc |-> annuitaet.exc]
            ELSE [loop |-> LoopStep(l, zins_betrag, tilgung_betrag, RSub(restschuld, tilgung_betrag),
                                    annuitaet.value),
                  log |-> annuitaet.log, exc |-> "none"]

\* element-wise sum of two columns of the 30-year table
P55SpaltenSumme(a, b) == [j \in P55Jahre |-> RAdd(a[j], b[j])]

\* "Gesamtsummen"
p55_gesamtsummen(d) ==
    LET zinsen_gesamt == P55SpaltenSumme(d["Zins Bank"], d["Zins KfW"])
        tilgung_gesamt == P55SpaltenSumme(d["Tilgung Bank"], d["Tilgung KfW"])
    IN  Put(d, ("Zinsen Gesamt" :> zinsen_gesamt)
               @@ ("Tilgung Gesamt" :> tilgung_gesamt)
               @@ ("Annuitaet Gesamt" :> P55SpaltenSumme(zinsen_gesamt, tilgung_gesamt))
               @@ ("Restschuld Gesamt" :> P55SpaltenSumme(d["Restschuld Bank"], d["Restschuld KfW"])))

\* session state of src/park55-app.py as far as the financing reads it
P55FinanzInputs(gik_netto, bb, basis, ek, kfw_zins, laufzeit, tilgungsfrei) ==
    [ ek_quote_pct |-> ek,
      bank_zins_pct |-> PctNum(2, 1),
      bank_tilgung_pct |-> PctNum(50, 1),
      kfw_zins_pct |-> PctNum(kfw_zins, 1),
      kfw_gesamtlaufzeit |-> laufzeit,
      kfw_tilgungsfreie_jahre |-> tilgungsfrei ] @@ P55Inputs(gik_netto, 1, bb, basis, 0)

\* (term, grace period of the last rerun, KfW rate in per cent): the term
\* widget admits 1..35 and the grace period was admitted against the term of
\* the last rerun; at a rate other than 0 the amortization spans at most
\* MaxLaufzeit years
P55Laufzeiten ==
    LET terms == {1, MaxLaufzeit, 29, 30, 31, P55_MAX_GESAMTLAUFZEIT}
        grace == {0, 1, 4, 26, 28, 29, 30, 31, P55_MAX_GESAMTLAUFZEIT - 1}
    IN  {t \in terms \X grace \X {0, 50} :
            t[3] = 0 \/ t[1] - tilgungsfrei_begrenzen(t[2], t[1]) <= MaxLaufzeit}

InitPark55Finanz ==
    /\ Start("p55_sidebar")
    /\ \E e \in {<<TRUE, FALSE>>, <<TRUE, TRUE>>, <<FALSE, FALSE>>} :
          IRR_ENABLED = e[1] /\ pmt_raises = e[2]
    /\ \E t \in P55Laufzeiten, gik_netto \in {0, 2000}, bb \in {0, 100}, basis \in {0, 1000},
          ek \in {PctNum(20, 1), PctNum(99, 1), PctNum(999999, 10000)} :
         inputs_pct = P55FinanzInputs(gik_netto, bb, basis, ek, t[3], t[1], t[2])

\* display_sidebar_inputs: the grace period is cut to the term less one
\* before the two widgets are drawn
P55Sidebar ==
    /\ pc = "p55_sidebar"
    /\ inputs_pct' = [inputs_pct EXCEPT !["kfw_tilgungsfreie_jahre"] =
                          tilgungsfrei_begrenzen(@, inputs_pct["kfw_gesamtlaufzeit"])]
    /\ pc' = "p55_convert"
    /\ UNCHANGED <<IRR_ENABLED, pmt_raises, params, results, loop, df, log>>

\* calculate_projection up to the bank loan: the empty frame for a zero
\* investment, else the bank loop or its three zero columns
P55BankStart ==
    /\ pc = "p55_done"
    /\ LET darlehen_bank == results["bankdarlehen"]
           summe == RAdd(params["bank_zins"], params["bank_tilgung"])
       IN  IF results["investitionssumme_gesamt"] = Zero
           THEN /\ pc' = "p55_finanz_done"
                /\ UNCHANGED <<loop, df>>
           ELSE IF RLt(Zero, darlehen_bank) /\ RLt(Zero, summe)
           THEN /\ loop' = LoopInit(darlehen_bank, RMul(darlehen_bank, summe))
                /\ pc' = "p55_bank_loop"
                /\ df' = df
           ELSE /\ df' = Put(df, ("Zins Bank" :> P55NullSpalte) @@ ("Tilgung Bank" :> P55NullSpalte)
                                 @@ ("Restschuld Bank" :> P55NullSpalte))
                /\ pc' = "p55_kfw"
                /\ loop' = loop
    /\ UNCHANGED <<IRR_ENABLED, pmt_raises, inputs_pct, params, results, log>>

P55BankYear ==
    /\ pc = "p55_bank_loop"
    /\ loop.jahr <= P55_BERECHNUNGSZEITRAUM
    /\ loop' = bank_year(loop, params["bank_zins"])
    /\ UNCHANGED <<pc, IRR_ENABLED, pmt_raises, inputs_pct, params, results, df, log>>

P55BankEnd ==
    /\ pc = "p55_bank_loop"
    /\ loop.jahr > P55_BERECHNUNGSZEITRAUM
    /\ df' = Put(df, ("Zins Bank" :> loop.zinsen_liste) @@ ("Tilgung Bank" :> loop.tilgung_liste)
                     @@ ("Restschuld Bank" :> loop.restschuld_liste))
    /\ pc' = "p55_kfw"
    /\ UNCHANGED <<IRR_ENABLED, pmt_raises, inputs_pct, params, results, loop, log>>

\* KfW loan: set up the loop, or zero the columns and sum up
P55KfwStart ==
    /\ pc = "p55_kfw"
    /\ LET darlehen_kfw == results["kfw_darlehen"]
       IN  IF RLt(Zero, darlehen_kfw)
           THEN /\ loop' = LoopInit(darlehen_kfw, Zero)
                /\ pc' = "p55_kfw_loop"
                /\ df' = df
           ELSE /\ df' = p55_gesamtsummen(Put(df, ("Zins KfW" :> P55NullSpalte)
                                                  @@ ("Tilgung KfW" :> P55NullSpalte)
                                                  @@ ("Restschuld KfW" :> P55NullSpalte)))
                /\ pc' = "p55_finanz_done"
                /\ loop' = loop
    /\ UNCHANGED <<IRR_ENABLED, pmt_raises, inputs_pct, params, results, log>>

\* one year of the KfW loop; the RuntimeError leaves run_calculations
P55KfwYear ==
    /\ pc = "p55_kfw_loop"
    /\ loop.jahr <= P55_BERECHNUNGSZEITRAUM
    /\ LET r == p55_kfw_year(loop, params, results, IRR_ENABLED, pmt_raises)
       IN  /\ loop' = r.loop
           /\ log' = log \o r.log
           /\ pc' = IF r.exc # "none" THEN "p55_finanz_raised" ELSE pc
    /\ UNCHANGED <<IRR_ENABLED, pmt_raises, inputs_pct, params, results, df>>

P55KfwEnd ==
    /\ pc = "p55_kfw_loop"
    /\ loop.jahr > P55_BERECHNUNGSZEITRAUM
    /\ df' = p55_gesamtsummen(Put(df, ("Zins KfW" :> loop.zinsen_liste)
                                      @@ ("Tilgung KfW" :> loop.tilgung_liste)
                                      @@ ("Restschuld KfW" :> loop.restschuld_liste)))
    /\ pc' = "p55_finanz_done"
    /\ UNCHANGED <<IRR_ENABLED, pmt_raises, inputs_pct, params, results, loop, log>>

\* a rerun from the sidebar to the end of calculate_financing_schedule
NextPark55Finanz ==
    \/ P55Sidebar \/ P55Convert \/ P55Investment
    \/ P55BankStart \/ P55BankYear \/ P55BankEnd
    \/ P55KfwStart \/ P55KfwYear \/ P55KfwEnd

SpecPark55Finanz == InitPark55Finanz /\ [][NextPark55Finanz]_vars

-----------------------------------------------------------------------------
(* run_calculations steps 3 to 5 and calculate_projection, src/app.py *)

\* 3. Mieten und Kosten: the code of both files is the same
calculate_revenues_costs(p, res) == p55_calculate_revenues_costs(p, res)

\* 4. Steuerberechnung (Grenzsteuersatz): the code of both files is the same
grenzsteuersatz(p, res) == p55_grenzsteuersatz(p, res)

\* (1 + rate) ** np.arange(first, first + BERECHNUNGSZEITRAUM), times a start value
Wachstumsspalte(start, rate, first) ==
    [j \in Jahre |-> RMul(start, RPow(RAdd(Num(1), rate), first + j - 1))]

\* element-wise difference of two columns
SpaltenDifferenz(a, b) == [j \in Jahre |-> RSub(a[j], b[j])]

\* variant that pays the municipal grant in every year
sonderzufluss_jedes_jahr(kommunale_foerderung, jahr) ==
    IF RLt(Zero, kommunale_foerderung) THEN kommunale_foerderung ELSE Zero

\* df['Sonderzufluss'] = 0.0, then the municipal grant at df.loc[1]
sonderzufluss(kommunale_foerderung, jahr) ==
    IF RLt(Zero, kommunale_foerderung) /\ jahr = 1 THEN kommunale_foerderung ELSE Zero

\* 1. Einnahmen, Kosten und Wertentwicklung
projection_einnahmen(p, res) ==
    LET mieteinnahmen == Wachstumsspalte(res["jahreskaltmiete_netto"], p["mietsteigerung_pa"], 0)
        betriebskosten == Wachstumsspalte(res["jahresverwaltungskosten"], p["kostensteigerung_pa"], 0)
    IN  ("Mieteinnahmen (Netto)" :> mieteinnahmen)
        @@ ("Betriebskosten" :> betriebskosten)
        @@ ("Einnahmenueberschuss" :> SpaltenDifferenz(mieteinnahmen, betriebskosten))
        @@ ("Immobilienwert" :> Wachstumsspalte(res["gik_brutto"], p["wertsteigerung_pa"], 1))

\* 4. Steuerberechnung, 5. Cashflow-Synthese and 6. Nettovermoegen
projection_cashflow(d, res) ==
    LET steuerliches_ergebnis ==
            SpaltenDifferenz(SpaltenDifferenz(d["Einnahmenueberschuss"], d["Zinsen Gesamt"]),
                             d["AfA Gesamt"])
        steuersatz == res["grenzsteuersatz_brutto"]
        steuerersparnis == [j \in Jahre |-> RMul(RNeg(steuerliches_ergebnis[j]), steuersatz)]
        cashflow_vor_steuer == SpaltenDifferenz(d["Einnahmenueberschuss"], d["Annuitaet Gesamt"])
        kommunale_foerderung == Get(res, "kommunale_foerderung", Zero)
        sonder == [j \in Jahre |-> sonderzufluss(kommunale_foerderung, j)]
    IN  Put(d, ("Steuerliches Ergebnis (V+V)" :> steuerliches_ergebnis)
               @@ ("Steuerersparnis" :> steuerersparnis)
               @@ ("Cashflow vor Steuer" :> cashflow_vor_steuer)
               @@ ("Sonderzufluss" :> sonder)
               @@ ("Cashflow nach Steuer" :>
                     SpaltenSumme(SpaltenSumme(cashflow_vor_steuer, steuerersparnis), sonder))
               @@ ("Nettovermoegen" :> SpaltenDifferenz(d["Immobilienwert"], d["Restschuld Gesamt"])))

\* session state of src/app.py as far as run_calculations reads it up to the
\* projection; the growth rates are 0 and the tax rate is entered by hand
ProjektionInputs(sanierung, bb, komm, foerderfaehig, basis, kfw_zins, typ, laufzeit, tilgungsfrei, stellplaetze, steuersatz) ==
    [ input_kellerflaeche |-> Zero,
      input_anzahl_stellplaetze |-> stellplaetze,
      miete_wohnen |-> Q(95, 10),
      miete_keller |-> Zero,
      miete_stellplatz |-> Num(50),
      nk_pro_wohnung |-> Num(30),
      steuer_modus |-> STEUER_MODI[2],
      kirchensteuer_option |-> "Keine",
      steuersatz_manuell_pct |-> PctNum(steuersatz, 1),
      sicherheitsabschlag_pct |-> PctNum(5, 1),
      mietsteigerung_pa_pct |-> PctNum(0, 1),
      kostensteigerung_pa_pct |-> PctNum(0, 1),
      wertsteigerung_pa_pct |-> PctNum(0, 1) ]
    @@ AppInputs(sanierung, 0, 1, bb, komm, foerderfaehig, basis, PctNum(20, 1), PctNum(2, 1),
                 PctNum(50, 1), PctNum(kfw_zins, 1), typ, laufzeit, tilgungsfrei)

InitProjektion ==
    /\ Start("convert")
    /\ IRR_ENABLED \in BOOLEAN
    /\ pmt_raises = FALSE
    /\ \E sanierung \in {0, 3000}, bb \in {0, 100}, komm \in {0, 200}, basis \in {0, 1000},
          kfw_zins \in {0, 50}, stellplaetze \in {0, 1},
          steuersatz \in {0, 50},
          t \in {<<KFW_ANNUITAET, MaxLaufzeit, 1>>, <<KFW_ANNUITAET, BERECHNUNGSZEITRAUM, 33>>,
                 <<KFW_ENDFAELLIG, 2, 0>>} :
         inputs_pct = ProjektionInputs(sanierung, bb, komm, 0, basis, kfw_zins, t[1], t[2], t[3],
                                       stellplaetze, steuersatz)

\* steps 3 and 4 of run_calculations
RunRevenues ==
    /\ pc = "projection"
    /\ results' = grenzsteuersatz(params, calculate_revenues_costs(params, results))
    /\ pc' = "projection_start"
    /\ UNCHANGED <<IRR_ENABLED, pmt_raises, inputs_pct, params, loop, df, log>>

\* calculate_projection up to the call of calculate_financing_schedule: the
\* empty frame for a zero investment, else the four columns of step 1
ProjectionEinnahmen ==
    /\ pc = "projection_start"
    /\ IF results["investitionssumme_gesamt"] = Zero
       THEN /\ df' = EmptyDict
            /\ pc' = "projection_done"
       ELSE /\ df' = projection_einnahmen(params, results)
            /\ pc' = "bank"
    /\ UNCHANGED <<IRR_ENABLED, pmt_raises, inputs_pct, params, results, loop, log>>

\* df = calculate_depreciation_schedule(df, results): the locals before its
\* first loop
ProjectionAfaStart ==
    /\ pc = "done"
    /\ loop' = AfaLoopInit
    /\ pc' = "afa_denkmal"
    /\ UNCHANGED <<IRR_ENABLED, pmt_raises, inputs_pct, params, results, df, log>>

\* steps 4 to 6 of calculate_projection
ProjectionCashflow ==
    /\ pc = "afa_done"
    /\ df' = projection_cashflow(df, results)
    /\ pc' = "projection_done"
    /\ UNCHANGED <<IRR_ENABLED, pmt_raises, inputs_pct, params, results, loop, log>>

NextProjektion ==
    \/ RunConvert \/ RunInvestment \/ RunRevenues \/ ProjectionEinnahmen
    \/ BankStart \/ BankYear \/ BankEnd
    \/ KfwStart \/ KfwYear \/ KfwEnd
    \/ ProjectionAfaStart \/ AfaDenkmalYear \/ AfaLinearStart \/ AfaLinearYear \/ AfaEnd
    \/ ProjectionCashflow

SpecProjektion == InitProjektion /\ [][NextProjektion]_vars

-----------------------------------------------------------------------------
(* run_calculations, src/app.py: KfW loans over long terms and large grants *)

\* (interest rate in per cent, loan type, term, grace period): the terms of
\* KfwLaufzeiten at 0 and 50 per cent, and at 0 per cent, where no power is
\* taken, annuity loans over 7 years and over the whole horizon
KfwTilgungsfaelle ==
    {<<z, t[1], t[2], t[3]>> : z \in {0, 50}, t \in KfwLaufzeiten}
    \cup {<<0, KFW_ANNUITAET, 7, 0>>}
    \cup {<<0, KFW_ANNUITAET, BERECHNUNGSZEITRAUM, tf>> : tf \in {0, 1, 2}}

\* fundable costs above the limit of 150,000 per unit: only the loan base is
\* capped, the repayment grant is 40 per cent of the costs entered
KfwKostenUeberLimit == {364285, 400000}

InitKfwTilgung ==
    /\ Start("convert")
    /\ \E e \in {<<TRUE, FALSE>>, <<TRUE, TRUE>>, <<FALSE, FALSE>>} :
          IRR_ENABLED = e[1] /\ pmt_raises = e[2]
    /\ \E f \in KfwTilgungsfaelle, bb \in {0, 100},
          k \in KfwEingaben(1, {0, 1000}, KfwKostenUeberLimit) :
         inputs_pct = AppInputs(3000, 0, 1, bb, 0, k[1], k[2], PctNum(20, 1),
                                PctNum(2, 1), PctNum(50, 1), PctNum(f[1], 1),
                                f[2], f[3], f[4])

SpecKfwTilgung == InitKfwTilgung /\ [][NextFinancing]_vars

-----------------------------------------------------------------------------
(* the session-state callbacks and display_inputs, src/app.py *)

MODE_MANUAL == "Manuelle Eingabe"

MODE_LIST == "Objektauswahl aus Liste"

\* Python's None as the value of selected_object
None == "None"

\* int(round(x)): to the nearest integer, a tie to the even one
py_round(x) ==
    LET unten == x[1] \div x[2]
        rest == x[1] - unten * x[2]
    IN  IF 2 * rest < x[2] THEN unten
        ELSE IF 2 * rest > x[2] THEN unten + 1
        ELSE IF unten % 2 = 0 THEN unten ELSE unten + 1

\* one row of the frame load_object_data returns
Objekt(name, wohnflaeche, anzahl_whg, stellplaetze, gik_netto, sanierung_pct, grundstueck_pct, zuschuss) ==
    [ Objektname |-> name, Wohnflaeche |-> Num(wohnflaeche), Anzahl_Whg |-> anzahl_whg,
      Kellerflaeche |-> Zero, Anzahl_Stellplaetze |-> stellplaetze, GIK_netto |-> Num(gik_netto),
      Sanierungskostenanteil_Pct |-> Num(sanierung_pct), Grundstuecksanteil_Pct |-> Num(grundstueck_pct),
      Kommunale_Foerderung_Zuschuss |-> zuschuss ]

\* target_data of the manual mode: the global defaults
DefaultObjekt == Objekt("", 0, 1, 0, 0, 80, 8, Zero)

\* what load_object_data returns: no object when the file cannot be read,
\* or the objects of the list, each with at least one unit
ObjektListen ==
    { <<>>,
      << Objekt("Haus A", 140, 2, 1, 500000, 80, 8, Q(1001, 2)),
         Objekt("Haus B", 210, MaxAnzahlWhg + 1, 0, 800000, 95, 5, Num(2000)) >> }

Objektnamen(objekte) == {objekte[i].Objektname : i \in 1..Len(objekte)}

\* df[df['Objektname'] == selected_name].iloc[0]
ObjektMitNamen(objekte, name) ==
    objekte[CHOOSE i \in 1..Len(objekte) :
               /\ objekte[i].Objektname = name
               /\ \A k \in 1..(i - 1) : objekte[k].Objektname # name]

\* update_state_from_selection: the defaults or the selected row are written
\* to the session state, the loan base is set to the maximum of the object
\* and the fundable costs are reset
update_state_from_selection(session, objekte) ==
    LET selected_name == Get(session, "selected_object", None)
        current_mode == Get(session, "input_mode", None)
        schreiben(target_data) ==
            Put(session,
                [ objekt_name |-> target_data.Objektname,
                  input_wohnflaeche |-> target_data.Wohnflaeche,
                  input_anzahl_whg |-> target_data.Anzahl_Whg,
                  input_kellerflaeche |-> target_data.Kellerflaeche,
                  input_anzahl_stellplaetze |-> target_data.Anzahl_Stellplaetze,
                  input_gik_netto |-> Num(py_round(target_data.GIK_netto)),
                  input_sanierungskostenanteil_pct |->
                      [t |-> "num", v |-> target_data.Sanierungskostenanteil_Pct],
                  input_grundstuecksanteil_pct |->
                      [t |-> "num", v |-> target_data.Grundstuecksanteil_Pct],
                  input_kommunale_foerderung |->
                      Num(py_round(target_data.Kommunale_Foerderung_Zuschuss)),
                  input_kfw_darlehen_261_basis |->
                      Num(target_data.Anzahl_Whg * KFW_LIMIT_PRO_WE_BASIS),
                  input_kfw_foerderfaehige_kosten |-> Zero,
                  kosten_baubegleitung_pro_we |-> Num(KOSTEN_BB_PRO_WE_DEFAULT) ])
    IN  IF selected_name = None \/ current_mode = MODE_MANUAL
        THEN schreiben(DefaultObjekt)
        ELSE IF objekte # <<>> /\ selected_name \in Objektnamen(objekte)
        THEN schreiben(ObjektMitNamen(objekte, selected_name))
        ELSE session

handle_mode_change(session, objekte) ==
    IF session["input_mode"] = MODE_MANUAL
    THEN update_state_from_selection(Put(session, [selected_object |-> None]), objekte)
    ELSE IF session["input_mode"] = MODE_LIST /\ objekte # <<>>
    THEN IF \/ session["selected_object"] = None
            \/ session["selected_object"] \notin Objektnamen(objekte)
         THEN update_state_from_selection(
                  Put(session, [selected_object |-> objekte[1].Objektname]), objekte)
         ELSE update_state_from_selection(session, objekte)
    ELSE session

\* variant that keeps the fundable costs
handle_anzahl_whg_change_ohne_kosten(session) ==
    IF Get(session, "input_mode", None) = MODE_MANUAL
    THEN Put(session,
             [ input_kfw_darlehen_261_basis |->
                   Num(Get(session, "input_anzahl_whg", 1) * KFW_LIMIT_PRO_WE_BASIS) ])
    ELSE session

\* handle_anzahl_whg_change: in manual mode the loan base becomes the new
\* maximum and the fundable costs are reset
handle_anzahl_whg_change(session) ==
    IF Get(session, "input_mode", None) = MODE_MANUAL
    THEN Put(session,
             [ input_kfw_darlehen_261_basis |->
                   Num(Get(session, "input_anzahl_whg", 1) * KFW_LIMIT_PRO_WE_BASIS),
               input_kfw_foerderfaehige_kosten |-> Zero ])
    ELSE session

\* handle_kfw_darlehen_basis_change: the fundable costs are reset
handle_kfw_darlehen_basis_change(session) ==
    IF RLt(Zero, Get(session, "input_kfw_foerderfaehige_kosten", Zero))
    THEN Put(session, [input_kfw_foerderfaehige_kosten |-> Zero])
    ELSE session

\* variant without the "Robustheits-Fix"
kfw_basis_unbegrenzt(current_kfw_value, max_kfw_darlehen_basis) == current_kfw_value

\* "Robustheits-Fix": a loan base above the maximum is set to the maximum
\* before its widget is shown
kfw_basis_begrenzen(current_kfw_value, max_kfw_darlehen_basis) ==
    IF RLt(Num(max_kfw_darlehen_basis), current_kfw_value)
    THEN Num(max_kfw_darlehen_basis)
    ELSE current_kfw_value

\* the session state after initialize_session_state
SessionDefaults ==
    Put(AppInputs(0, 0, 1, KOSTEN_BB_PRO_WE_DEFAULT, 0, 0, KFW_LIMIT_PRO_WE_BASIS,
                  PctNum(20, 1), PctNum(42, 10), PctNum(2, 1), PctNum(286, 100),
                  KFW_ANNUITAET, 30, 4),
        [ objekt_name |-> "", input_gik_netto |-> Zero, input_kellerflaeche |-> Zero,
          input_anzahl_stellplaetze |-> 0, input_mode |-> MODE_MANUAL,
          selected_object |-> None ])

\* the on_change callback that is pending, none while the script runs
Callback(name) == [callback |-> name]

\* the first run of main: df holds the frame of load_object_data, which is
\* cached for the session
InitSession ==
    /\ pc = "main"
    /\ IRR_ENABLED = TRUE
    /\ pmt_raises = FALSE
    /\ inputs_pct = SessionDefaults
    /\ params = EmptyDict
    /\ results = EmptyDict
    /\ loop = NoLoop
    /\ df \in ObjektListen
    /\ log = <<>>

\* display_inputs: manual mode is forced when there is no list, the shares
\* are validated and the loan base is held at the maximum of the unit count
SessionDisplayInputs ==
    /\ pc = "main"
    /\ LET s1 == IF df = <<>> /\ inputs_pct["input_mode"] # MODE_MANUAL
                 THEN handle_mode_change(Put(inputs_pct, [input_mode |-> MODE_MANUAL]), df)
                 ELSE inputs_pct
           v == validate_gik_anteile(s1["input_sanierungskostenanteil_pct"],
                                     s1["input_grundstuecksanteil_pct"], s1)
           s2 == IF v.schreibt
                 THEN Put(s1, [input_altbauanteil_pct |-> [t |-> "num", v |-> v.altbau]])
                 ELSE s1
           max_kfw_darlehen_basis == s2["input_anzahl_whg"] * KFW_LIMIT_PRO_WE_BASIS
       IN  /\ inputs_pct' =
                 Put(s2, [input_kfw_darlehen_261_basis |->
                              kfw_basis_begrenzen(s2["input_kfw_darlehen_261_basis"],
                                                  max_kfw_darlehen_basis)])
           /\ loop' = MainLocals(v.ok, IF v.msg_type \in {"error", "warning"}
                                       THEN <<[art |-> v.msg_type, text |-> v.msg]>>
                                       ELSE <<>>)
    /\ pc' = "main_berechnung"
    /\ UNCHANGED <<IRR_ENABLED, pmt_raises, params, results, df, log>>

\* the script has run and the widgets wait for the user
WidgetsBereit == pc \in {"main_done", "projection"}

\* the user changes the widget of a key: the value is stored, the on_change
\* callback is pending and the results of the last run are gone
WidgetEingabe(session, key, value) == Put(session, (key :> value))

\* st.radio of the input mode; the list mode is offered when there is a list
EingabeModus ==
    /\ WidgetsBereit
    /\ \E m \in (IF df = <<>> THEN {MODE_MANUAL} ELSE {MODE_MANUAL, MODE_LIST}) :
          /\ inputs_pct["input_mode"] # m
          /\ inputs_pct' = WidgetEingabe(inputs_pct, "input_mode", m)
    /\ loop' = Callback("handle_mode_change")
    /\ pc' = "on_change"
    /\ params' = EmptyDict
    /\ results' = EmptyDict
    /\ UNCHANGED <<IRR_ENABLED, pmt_raises, df, log>>

\* st.selectbox of the objects, shown in list mode
EingabeObjekt ==
    /\ WidgetsBereit
    /\ inputs_pct["input_mode"] = MODE_LIST
    /\ df # <<>>
    /\ \E name \in Objektnamen(df) :
          /\ inputs_pct["selected_object"] # name
          /\ inputs_pct' = WidgetEingabe(inputs_pct, "selected_object", name)
    /\ loop' = Callback("update_state_from_selection")
    /\ pc' = "on_change"
    /\ params' = EmptyDict
    /\ results' = EmptyDict
    /\ UNCHANGED <<IRR_ENABLED, pmt_raises, df, log>>

\* number_input "Anzahl Wohnungen", min_value 1
EingabeAnzahlWhg ==
    /\ WidgetsBereit
    /\ \E anzahl \in 1..MaxAnzahlWhg :
          /\ inputs_pct["input_anzahl_whg"] # anzahl
          /\ inputs_pct' = WidgetEingabe(inputs_pct, "input_anzahl_whg", anzahl)
    /\ loop' = Callback("handle_anzahl_whg_change")
    /\ pc' = "on_change"
    /\ params' = EmptyDict
    /\ results' = EmptyDict
    /\ UNCHANGED <<IRR_ENABLED, pmt_raises, df, log>>

\* what the user types as fundable costs
KostenEingaben == {0, 100000, 400000}

\* number_input of the fundable costs, min_value 0
EingabeFoerderfaehig ==
    /\ WidgetsBereit
    /\ \E kosten \in KostenEingaben :
          /\ inputs_pct["input_kfw_foerderfaehige_kosten"] # Num(kosten)
          /\ inputs_pct' = WidgetEingabe(inputs_pct, "input_kfw_foerderfaehige_kosten", Num(kosten))
    /\ loop' = Callback("handle_kfw_foerderfaehig_change")
    /\ pc' = "on_change"
    /\ params' = EmptyDict
    /\ results' = EmptyDict
    /\ UNCHANGED <<IRR_ENABLED, pmt_raises, df, log>>

\* what the user types as loan base: the widget admits 0 to the maximum it
\* was shown with
BasisEingaben(max_kfw_darlehen_basis) ==
    {b \in {0, 50000, max_kfw_darlehen_basis} : b <= max_kfw_darlehen_basis}

\* number_input of the loan base
EingabeDarlehenBasis ==
    /\ WidgetsBereit
    /\ \E basis \in BasisEingaben(inputs_pct["input_anzahl_whg"] * KFW_LIMIT_PRO_WE_BASIS) :
          /\ inputs_pct["input_kfw_darlehen_261_basis"] # Num(basis)
          /\ inputs_pct' = WidgetEingabe(inputs_pct, "input_kfw_darlehen_261_basis", Num(basis))
    /\ loop' = Callback("handle_kfw_darlehen_basis_change")
    /\ pc' = "on_change"
    /\ params' = EmptyDict
    /\ results' = EmptyDict
    /\ UNCHANGED <<IRR_ENABLED, pmt_raises, df, log>>

\* the pending callback is the one of the given name
CallbackAnstehend(name) == pc = "on_change" /\ loop = Callback(name)

\* each callback runs on the session state, then the script is rerun
HandleModeChange ==
    /\ CallbackAnstehend("handle_mode_change")
    /\ inputs_pct' = handle_mode_change(inputs_pct, df)
    /\ pc' = "main"
    /\ UNCHANGED <<IRR_ENABLED, pmt_raises, params, results, loop, df, log>>

UpdateStateFromSelection ==
    /\ CallbackAnstehend("update_state_from_selection")
    /\ inputs_pct' = update_state_from_selection(inputs_pct, df)
    /\ pc' = "main"
    /\ UNCHANGED <<IRR_ENABLED, pmt_raises, params, results, loop, df, log>>

HandleAnzahlWhgChange ==
    /\ CallbackAnstehend("handle_anzahl_whg_change")
    /\ inputs_pct' = handle_anzahl_whg_change(inputs_pct)
    /\ pc' = "main"
    /\ UNCHANGED <<IRR_ENABLED, pmt_raises, params, results, loop, df, log>>

HandleKfwFoerderfaehigChange ==
    /\ CallbackAnstehend("handle_kfw_foerderfaehig_change")
    /\ inputs_pct' =
          Put(inputs_pct,
              [input_kfw_darlehen_261_basis |->
                   Num(handle_kfw_foerderfaehig_change(
                           inputs_pct["input_kfw_foerderfaehige_kosten"][1],
                           inputs_pct["input_anzahl_whg"],
                           inputs_pct["input_kfw_darlehen_261_basis"][1]))])
    /\ pc' = "main"
    /\ UNCHANGED <<IRR_ENABLED, pmt_raises, params, results, loop, df, log>>

HandleKfwDarlehenBasisChange ==
    /\ CallbackAnstehend("handle_kfw_darlehen_basis_change")
    /\ inputs_pct' = handle_kfw_darlehen_basis_change(inputs_pct)
    /\ pc' = "main"
    /\ UNCHANGED <<IRR_ENABLED, pmt_raises, params, results, loop, df, log>>

\* the session: edits of the five widgets with a callback, each followed by
\* its callback and a rerun of main up to calculate_investment
NextSession ==
    \/ SessionDisplayInputs \/ MainBerechnung \/ RunConvert \/ RunInvestment
    \/ EingabeModus \/ EingabeObjekt \/ EingabeAnzahlWhg
    \/ EingabeFoerderfaehig \/ EingabeDarlehenBasis
    \/ HandleModeChange \/ UpdateStateFromSelection \/ HandleAnzahlWhgChange
    \/ HandleKfwFoerderfaehigChange \/ HandleKfwDarlehenBasisChange

SpecSession == InitSession /\ [][NextSession]_vars

-----------------------------------------------------------------------------
(* Properties of convert_inputs_to_params (SpecConvert) *)

ConvertDone == pc = "investment"

\* value / 100 for a number, 0.0 for None, the empty string and other text
Erwartet(value) == IF value.t = "num" THEN RMul(value.v, Q(1, 100)) ELSE Zero

\* C15 as stated: convert_inputs_to_params does not raise and its output
\* holds, for every percentage key, the stripped key: value/100 for a numeric
\* value, 0.0 for a non-numeric, None or empty value and 0.0 for a percentage
\* key that is missing from the input mapping
C15_FehlendeSchluesselNull ==
    ConvertDone =>
        \A k \in pct_keys :
            /\ new_key[k] \in DOMAIN params
            /\ params[new_key[k]] = (IF k \in DOMAIN inputs_pct THEN Erwartet(inputs_pct[k]) ELSE Zero)

\* C15 amended: convert_inputs_to_params does not raise and its output holds,
\* for every percentage key of the input mapping, the stripped key: value/100
\* for a numeric value and 0.0 for a non-numeric, None or empty value; for a
\* percentage key missing from the input mapping it adds no stripped key (a
\* stripped key of the input keeps its value)
C15_NurVorhandeneSchluessel ==
    ConvertDone =>
        \A k \in pct_keys :
            IF k \in DOMAIN inputs_pct
            THEN /\ new_key[k] \in DOMAIN params
                 /\ params[new_key[k]] = Erwartet(inputs_pct[k])
            ELSE /\ new_key[k] \in DOMAIN params <=> new_key[k] \in DOMAIN inputs_pct
                 /\ new_key[k] \in DOMAIN params => params[new_key[k]] = inputs_pct[new_key[k]]

\* a run with a number, a None and a missing percentage key
C15_Witness ==
    /\ ConvertDone
    /\ "ek_quote_pct" \notin DOMAIN inputs_pct
    /\ "ek_quote" \notin DOMAIN params
    /\ "bank_zins_pct" \in DOMAIN inputs_pct
    /\ inputs_pct["bank_zins_pct"] = PctNone
    /\ params["bank_zins"] = Zero
    /\ "kfw_zins_pct" \in DOMAIN inputs_pct
    /\ inputs_pct["kfw_zins_pct"] = PctNum(292, 100)
    /\ params["kfw_zins"] = Q(292, 10000)

\* C18: for every percentage number p supplied under a percentage key, 100
\* times the value convert_inputs_to_params stores under the stripped key is
\* p again, and the percentage keys and their values are still there,
\* unchanged, in the output and in the input mapping
C18_RundreiseProzent ==
    [][pc = "convert" =>
        /\ inputs_pct' = inputs_pct
        /\ \A k \in pct_keys \cap DOMAIN inputs_pct :
              /\ k \in DOMAIN params'
              /\ params'[k] = inputs_pct[k]
              /\ inputs_pct[k].t = "num" =>
                    RMul(params'[new_key[k]], Num(100)) = inputs_pct[k].v]_vars

\* 2.92 per cent was supplied, 0.0292 is stored and the input is kept
C18_Witness ==
    /\ ConvertDone
    /\ "kfw_zins_pct" \in DOMAIN inputs_pct
    /\ inputs_pct["kfw_zins_pct"] = PctNum(292, 100)
    /\ params["kfw_zins"] = Q(292, 10000)
    /\ params["kfw_zins_pct"] = PctNum(292, 100)

-----------------------------------------------------------------------------
(* Properties of calculate_depreciation_schedule, src/app.py (SpecAfa) *)

AfaDone == pc = "afa_done"

\* C16: for non-negative bases the special-band depreciation accumulated up
\* to any year does not exceed the renovation basis, and the straight-line
\* depreciation accumulated up to any year does not exceed the old-building
\* basis; this holds of the lists while they grow and of the columns written
C16_AfaHoechstensBasis ==
    /\ pc \in {"afa_denkmal", "afa_linear"} =>
          /\ RLe(SeqSum(loop.afa_denkmal_liste), results["afa_basis_sanierung"])
          /\ RLe(SeqSum(loop.afa_linear_liste), results["afa_basis_altbau"])
    /\ AfaDone =>
          \A y \in Jahre :
              /\ RLe(SumRange(df["AfA Denkmal (Sonder)"], 1, y), results["afa_basis_sanierung"])
              /\ RLe(SumRange(df["AfA Altbau (Linear)"], 1, y), results["afa_basis_altbau"])

\* a positive renovation basis fully depreciated after year 12, and 70 per
\* cent of a positive old-building basis after year 35
C16_Witness ==
    /\ AfaDone
    /\ RLt(Zero, results["afa_basis_sanierung"])
    /\ RLt(Zero, results["afa_basis_altbau"])
    /\ SumRange(df["AfA Denkmal (Sonder)"], 1, 12) = results["afa_basis_sanierung"]
    /\ SeqSum(df["AfA Altbau (Linear)"]) = RMul(results["afa_basis_altbau"], Q(70, 100))

\* the statutory rate of the special band in year y
SonderSatz(y) == IF y <= 8 THEN Q(9, 100) ELSE IF y <= 12 THEN Q(7, 100) ELSE Zero

\* the special-band amounts written so far: the list of the first loop, also
\* after it has ended (after 30 years it is the list of src/park55-app.py)
AfaDenkmalListe == loop.afa_denkmal_liste

\* C25: the special-band depreciation of year y is 9 per cent of the
\* original renovation basis for 1 <= y <= 8, 7 per cent of it for
\* 9 <= y <= 12 and 0 for y > 12, whatever has been depreciated before, so
\* that the cumulative special-band depreciation after year 12, and after
\* every later year, equals the renovation basis
C25_SonderAfaFesteSaetze ==
    pc \in {"afa_denkmal", "afa_linear", "afa_done"} =>
        LET basis == results["afa_basis_sanierung"]
            n == Len(AfaDenkmalListe)
        IN  /\ \A y \in 1..n : AfaDenkmalListe[y] = RMul(basis, SonderSatz(y))
            /\ n >= 12 => SumRange(AfaDenkmalListe, 1, 12) = basis
            /\ n >= 12 => SeqSum(AfaDenkmalListe) = basis
            /\ pc = "afa_done" => df["AfA Denkmal (Sonder)"] = AfaDenkmalListe

\* a finished schedule on a basis of 99,999: 8,999.91 in year 8, 6,999.93
\* in year 9, nothing in year 13, and the twelve amounts add up to the basis
C25_Witness ==
    /\ pc = "afa_done"
    /\ results["afa_basis_sanierung"] = Num(99999)
    /\ df["AfA Denkmal (Sonder)"][8] = Q(899991, 100)
    /\ df["AfA Denkmal (Sonder)"][9] = Q(699993, 100)
    /\ df["AfA Denkmal (Sonder)"][12] = Q(699993, 100)
    /\ df["AfA Denkmal (Sonder)"][13] = Zero
    /\ SumRange(df["AfA Denkmal (Sonder)"], 1, 12) = Num(99999)

-----------------------------------------------------------------------------
(* Properties of main, src/app.py (SpecMain) *)

\* control is inside run_calculations
KernAufgerufen == pc \in {"convert", "investment", "projection"}

\* renovation share plus land share, when both are numbers
SummeAnteile ==
    RAdd(inputs_pct["input_sanierungskostenanteil_pct"].v,
         inputs_pct["input_grundstuecksanteil_pct"].v)

\* both shares are numbers and their sum, in ten-thousandths of a per cent,
\* is above 100.0001 per cent
SummeZuHoch ==
    /\ inputs_pct["input_sanierungskostenanteil_pct"].t = "num"
    /\ inputs_pct["input_grundstuecksanteil_pct"].t = "num"
    /\ SummeAnteile[1] * (10000 \div SummeAnteile[2]) > 1000001

FehlerGezeigt == \E i \in 1..Len(loop.meldungen) : loop.meldungen[i].art = "error"

\* C17: run_calculations is invoked in a rerun only if validate_gik_anteile
\* accepted the inputs of that rerun; whenever renovation share plus land
\* share is above 100 per cent by more than the tolerance 0.0001, the core is
\* not invoked and an error message is shown instead
C17_KernNurNachValidierung ==
    /\ KernAufgerufen =>
          /\ loop.gik_is_valid
          /\ inputs_pct["input_sanierungskostenanteil_pct"].t = "num"
          /\ inputs_pct["input_grundstuecksanteil_pct"].t = "num"
    /\ SummeZuHoch => ~KernAufgerufen
    /\ SummeZuHoch /\ pc \in {"main_berechnung", "main_done"} =>
          /\ ~loop.gik_is_valid
          /\ FehlerGezeigt
    /\ SummeZuHoch /\ pc = "main_done" =>
          loop.meldungen[Len(loop.meldungen)].text = GIK_BERECHNUNG_FEHLER

\* a rerun with 95 + 5.0002 per cent ended with the error and without the core
C17_Witness ==
    /\ pc = "main_done"
    /\ SummeZuHoch
    /\ inputs_pct["input_grundstuecksanteil_pct"] = PctNum(50002, 10000)
    /\ FehlerGezeigt
    /\ results = EmptyDict

\* a rerun with accepted shares in which the core was invoked
C17_WitnessKern ==
    /\ pc = "projection"
    /\ loop.gik_is_valid
    /\ ~SummeZuHoch
    /\ "investitionssumme_gesamt" \in DOMAIN results

-----------------------------------------------------------------------------
(* Properties of calculate_investment, src/app.py (SpecInvestment) *)

\* calculate_investment of src/app.py has returned
InvestmentDone == pc \in {"projection", "bank", "bank_loop", "kfw", "kfw_loop", "done", "raised"}

\* C1: after calculate_investment, equity + bank loan + subsidized-loan total
\* equals the total investment.
C1_FinanzierungGleichInvestition ==
    InvestmentDone =>
        RAdd(RAdd(results["eigenkapital_bedarf"], results["bankdarlehen"]), results["kfw_darlehen"])
            = results["investitionssumme_gesamt"]

\* C8: the repayment grant is 40% of the subsidized-loan base that is financed,
\* also when fundable costs were entered.
C8_ZuschussAufDarlehensbasis ==
    InvestmentDone =>
        results["kfw_tilgungszuschuss"] = RMul(Q(40, 100), results["kfw_darlehen_basis"])

AfaBasisOhneUntergrenze ==
    RAdd(RSub(RSub(results["afa_basis_sanierung_vor_foerderung"], params["input_kommunale_foerderung"]),
              results["kfw_tilgungszuschuss"]),
         RMul(params["input_kommunale_foerderung"], Q(15, 10)))

\* the floor at 0 takes effect
UntergrenzeGreift == RLt(AfaBasisOhneUntergrenze, Zero)

\* municipal grant plus repayment grant
SanierungsZuschuesse == RAdd(params["input_kommunale_foerderung"], results["kfw_tilgungszuschuss"])

C22_WitnessOhneUntergrenze ==
    /\ InvestmentDone
    /\ results["afa_hinweis"] = AFA_HINWEIS
    /\ ~UntergrenzeGreift
    /\ RLt(Zero, results["afa_basis_sanierung"])
    /\ results["kfw_tilgungszuschuss"] = Zero

\* the floor cuts a base of 0 before grants and the advisory stays empty
C22_WitnessOhneHinweis ==
    /\ InvestmentDone
    /\ results["afa_hinweis"] = ""
    /\ UntergrenzeGreift
    /\ results["afa_basis_sanierung_vor_foerderung"] = Zero

-----------------------------------------------------------------------------
(* Properties of calculate_investment, src/park55-app.py (SpecPark55) *)

\* calculate_investment of src/park55-app.py has returned
P55Done == pc = "p55_done"

\* net base 1,000,000, split 80/8/12, 6 units, equity 20%, loan base 900,000
ScenarioA ==
    /\ inputs_pct["input_gik_netto"] = Num(1000000)
    /\ inputs_pct["input_anzahl_whg"] = 6
    /\ inputs_pct["ek_quote_pct"] = PctNum(20, 1)
    /\ inputs_pct["input_kfw_darlehen_261_basis"] = Num(900000)
    /\ inputs_pct["input_sanierungskostenanteil_pct"] = PctNum(80, 1)
    /\ inputs_pct["input_grundstuecksanteil_pct"] = PctNum(8, 1)
    /\ inputs_pct["input_altbauanteil_pct"] = PctNum(12, 1)

\* C6 as stated: in scenario A, whatever the per-unit supervision cost, the
\* loan base stays 900,000 and the repayment grant is 360,000.
C6_BasisUnveraendert ==
    (P55Done /\ ScenarioA) =>
        /\ results["kfw_darlehen_basis"] = Num(900000)
        /\ results["kfw_tilgungszuschuss"] = Num(360000)

\* C6 as amended: in scenario A the debt is 852,000 + 4.8 x cost, below the
\* uncapped total 900,000 + 6 x cost, so the cap applies: the loan base is
\* max(0, 852,000 - 1.2 x cost), the repayment grant is 40% of that base and
\* the advisory is recorded.
C6_BasisGekappt ==
    (P55Done /\ ScenarioA) =>
        LET kosten == inputs_pct["kosten_baubegleitung_pro_we"]
            rest == RSub(Num(852000), RMul(Q(12, 10), kosten))
            basis == IF RLt(rest, Zero) THEN Zero ELSE rest
        IN  /\ results["kfw_darlehen_basis"] = basis
            /\ results["kfw_tilgungszuschuss"] = RMul(Q(4, 10), basis)
            /\ "finanzierung_hinweis" \in DOMAIN results

\* scenario A with the default supervision cost of 3,998 per unit
C6_Witness ==
    /\ P55Done
    /\ ScenarioA
    /\ inputs_pct["kosten_baubegleitung_pro_we"] = Num(KOSTEN_BB_PRO_WE_DEFAULT)
    /\ results["kfw_darlehen_basis"] = Q(8472024, 10)
    /\ results["kfw_tilgungszuschuss"] = Q(33888096, 100)

\* C7: the subsidized-loan total never exceeds the debt, and the advisory is
\* recorded whenever base + supervision cost exceeded the debt.
C7_KfwHoechstensFremdkapital ==
    P55Done =>
        LET ungekappt == RAdd(params["input_kfw_darlehen_261_basis"],
                              RMul(params["kosten_baubegleitung_pro_we"],
                                   Num(params["input_anzahl_whg"])))
        IN  /\ RLe(results["kfw_darlehen"], results["fremdkapital_bedarf"])
            /\ RLt(results["fremdkapital_bedarf"], ungekappt)
                  => "finanzierung_hinweis" \in DOMAIN results

\* kfw_darlehen - kfw_darlehen_basis: what the KfW loan holds on top of its base
BaubegleitungsAnteil == RSub(results["kfw_darlehen"], results["kfw_darlehen_basis"])

\* the debt is positive and smaller than the supervision cost
BedarfUnterBaubegleitung ==
    /\ RLt(Zero, results["fremdkapital_bedarf"])
    /\ RLt(results["fremdkapital_bedarf"], results["kosten_baubegleitung_gesamt"])

\* C19 as stated: after calculate_investment of src/park55-app.py,
\* kfw_darlehen - kfw_darlehen_basis equals kosten_baubegleitung_gesamt for
\* every parameter record, capped or not: the cap never reduces the
\* supervision component
C19_BaubegleitungNieGekuerzt ==
    P55Done => BaubegleitungsAnteil = results["kosten_baubegleitung_gesamt"]

\* C19 amended: kfw_darlehen - kfw_darlehen_basis equals
\* kosten_baubegleitung_gesamt unless the debt is positive and smaller than
\* the supervision cost; then the cap applies, the base is 0, the advisory is
\* recorded and kfw_darlehen - kfw_darlehen_basis is the debt
C19_BaubegleitungBisZumBedarf ==
    P55Done =>
        IF BedarfUnterBaubegleitung
        THEN /\ results["kfw_darlehen_basis"] = Zero
             /\ BaubegleitungsAnteil = results["fremdkapital_bedarf"]
             /\ "finanzierung_hinweis" \in DOMAIN results
        ELSE BaubegleitungsAnteil = results["kosten_baubegleitung_gesamt"]

\* the cap was applied, took part of a positive base and left the
\* supervision cost in the loan
C19_Witness ==
    /\ P55Done
    /\ "finanzierung_hinweis" \in DOMAIN results
    /\ RLt(Zero, results["kosten_baubegleitung_gesamt"])
    /\ RLt(Zero, results["kfw_darlehen_basis"])
    /\ RLt(results["kfw_darlehen_basis"], inputs_pct["input_kfw_darlehen_261_basis"])
    /\ BaubegleitungsAnteil = results["kosten_baubegleitung_gesamt"]

\* the widgets' case of a debt below the supervision cost: no purchase
\* price, one unit at 4,000, equity 15 per cent
C19_WitnessGekuerzt ==
    /\ P55Done
    /\ BedarfUnterBaubegleitung
    /\ inputs_pct["input_gik_netto"] = Zero
    /\ inputs_pct["kosten_baubegleitung_pro_we"] = Num(4000)
    /\ inputs_pct["input_anzahl_whg"] = 1
    /\ results["kfw_darlehen"] = Num(3400)
    /\ results["kfw_darlehen_basis"] = Zero

-----------------------------------------------------------------------------
(* Properties of calculate_financing_schedule, src/app.py (SpecFinancing) *)

\* calculate_financing_schedule has returned the schedule
ScheduleDone == pc = "done" /\ "Restschuld KfW" \in DOMAIN df

\* the balances liste[1..n] of a loan of amount darlehen never go below 0
\* and never rise, year 0 being the loan amount
NichtSteigend(darlehen, liste, n) ==
    \A j \in 1..n :
        /\ RLe(Zero, liste[j])
        /\ RLe(liste[j], IF j = 1 THEN darlehen ELSE liste[j - 1])

\* C2: in every year and for each loan (bank, KfW; annuity and bullet) the
\* outstanding balance is >= 0 and <= the previous year's balance, year 0
\* being the initial loan amount; this holds of the lists while a loop runs
\* and of the columns once they are assigned.
C2_RestschuldNichtSteigend ==
    /\ pc = "bank_loop" =>
          NichtSteigend(results["bankdarlehen"], loop.restschuld_liste, Len(loop.restschuld_liste))
    /\ pc = "kfw_loop" =>
          NichtSteigend(results["kfw_darlehen"], loop.restschuld_liste, Len(loop.restschuld_liste))
    /\ "Restschuld Bank" \in DOMAIN df =>
          NichtSteigend(results["bankdarlehen"], df["Restschuld Bank"], BERECHNUNGSZEITRAUM)
    /\ "Restschuld KfW" \in DOMAIN df =>
          NichtSteigend(results["kfw_darlehen"], df["Restschuld KfW"], BERECHNUNGSZEITRAUM)

\* a finished schedule in which both loans are positive and both balances fall
C2_Witness ==
    /\ ScheduleDone
    /\ RLt(Zero, df["Restschuld Bank"][1])
    /\ RLt(df["Restschuld Bank"][1], results["bankdarlehen"])
    /\ RLt(Zero, df["Restschuld KfW"][2])
    /\ RLt(df["Restschuld KfW"][2], df["Restschuld KfW"][1])
    /\ RLt(df["Restschuld KfW"][1], results["kfw_darlehen"])

\* the accumulated grant: repayment grant + supervision grant
Zuschuss == RAdd(results["kfw_tilgungszuschuss"], results["zuschuss_baubegleitung"])

\* the KfW balance the grant leaves at the end of year 1 when nothing was
\* repaid in year 1
NachZuschuss ==
    LET rest == RSub(results["kfw_darlehen"], Zuschuss)
    IN  IF RLt(rest, Zero) THEN Zero ELSE rest

\* that balance is carried as a live loan (above the 0.01 cut-off)
NachZuschussOffen == RLt(Q(1, 100), NachZuschuss)

AnnuitaetMitFreijahren ==
    /\ ScheduleDone
    /\ params["kfw_darlehenstyp"] = KFW_ANNUITAET
    /\ params["kfw_tilgungsfreie_jahre"] >= 2

\* C3 as stated: annuity loan with grace period g >= 2: in each of the years
\* 1..g the repayment is 0, the interest is rate x the unreduced initial loan
\* and the balance still is the unreduced loan (the grant shows from g+1 on).
C3_ZuschussNachFreijahren ==
    AnnuitaetMitFreijahren =>
        \A j \in 1..params["kfw_tilgungsfreie_jahre"] :
            /\ df["Tilgung KfW"][j] = Zero
            /\ df["Zins KfW"][j] = RMul(params["kfw_zins"], results["kfw_darlehen"])
            /\ df["Restschuld KfW"][j] = results["kfw_darlehen"]

\* C3 as amended: annuity loan with grace period g >= 2: in each of the years
\* 1..g the repayment is 0; the interest of year 1 is rate x the unreduced
\* loan; the grant is subtracted at the end of year 1, so the balance of the
\* years 1..g is max(0, loan - grant) and the interest of the years 2..g is
\* rate x that reduced balance (a reduced balance of at most 0.01 is reported
\* as interest 0 and balance 0 from year 2 on).
C3_ZuschussEndeJahr1 ==
    AnnuitaetMitFreijahren =>
        \A j \in 1..params["kfw_tilgungsfreie_jahre"] :
            /\ df["Tilgung KfW"][j] = Zero
            /\ df["Zins KfW"][j] =
                  (IF j = 1 THEN RMul(params["kfw_zins"], results["kfw_darlehen"])
                   ELSE IF NachZuschussOffen THEN RMul(params["kfw_zins"], NachZuschuss)
                   ELSE Zero)
            /\ df["Restschuld KfW"][j] =
                  (IF j = 1 \/ NachZuschussOffen THEN NachZuschuss ELSE Zero)

\* an annuity loan with grace years, interest and a grant smaller than the loan
C3_Witness ==
    /\ AnnuitaetMitFreijahren
    /\ RLt(Zero, params["kfw_zins"])
    /\ RLt(Zero, Zuschuss)
    /\ NachZuschussOffen
    /\ RLt(Zero, df["Zins KfW"][2])
    /\ RLt(df["Zins KfW"][2], df["Zins KfW"][1])

Endfaellig == ScheduleDone /\ params["kfw_darlehenstyp"] = KFW_ENDFAELLIG

\* all three KfW columns are 0 in year j
KfwJahrNull(j) ==
    /\ df["Zins KfW"][j] = Zero
    /\ df["Tilgung KfW"][j] = Zero
    /\ df["Restschuld KfW"][j] = Zero

\* C4 as stated: bullet loan with term T: the years 1..T-1 show repayment 0
\* and interest rate x the unreduced initial loan; year T shows the repayment
\* max(0, loan - grant) and balance 0; every later year is all zero.
C4_EndfaelligUnreduziert ==
    Endfaellig =>
        LET T == params["kfw_gesamtlaufzeit"]
        IN  /\ \A j \in 1..(T - 1) :
                  /\ df["Tilgung KfW"][j] = Zero
                  /\ df["Zins KfW"][j] = RMul(params["kfw_zins"], results["kfw_darlehen"])
            /\ df["Tilgung KfW"][T] = NachZuschuss
            /\ df["Restschuld KfW"][T] = Zero
            /\ \A j \in (T + 1)..BERECHNUNGSZEITRAUM : KfwJahrNull(j)

\* C4 as amended: bullet loan with term T: year 1 bears interest rate x the
\* unreduced loan and the grant is subtracted at the end of year 1; the years
\* 2..T-1 show repayment 0, interest rate x the reduced balance
\* max(0, loan - grant) and that balance; year T (T >= 2) shows interest on
\* and repayment of the reduced balance and balance 0; for T = 1 the whole
\* loan is repaid in year 1 and the grant reduces nothing; every year after T
\* is all zero. A reduced balance of at most 0.01 is reported as all zero
\* from year 2 on.
C4_EndfaelligReduziert ==
    Endfaellig =>
        LET T == params["kfw_gesamtlaufzeit"]
            zins_voll == RMul(params["kfw_zins"], results["kfw_darlehen"])
            zins_reduziert == RMul(params["kfw_zins"], NachZuschuss)
        IN  /\ df["Zins KfW"][1] = zins_voll
            /\ df["Tilgung KfW"][1] = (IF T = 1 THEN results["kfw_darlehen"] ELSE Zero)
            /\ df["Restschuld KfW"][1] = (IF T = 1 THEN Zero ELSE NachZuschuss)
            /\ \A j \in 2..(T - 1) :
                  IF NachZuschussOffen
                  THEN /\ df["Zins KfW"][j] = zins_reduziert
                       /\ df["Tilgung KfW"][j] = Zero
                       /\ df["Restschuld KfW"][j] = NachZuschuss
                  ELSE KfwJahrNull(j)
            /\ T >= 2 =>
                  IF NachZuschussOffen
                  THEN /\ df["Zins KfW"][T] = zins_reduziert
                       /\ df["Tilgung KfW"][T] = NachZuschuss
                       /\ df["Restschuld KfW"][T] = Zero
                  ELSE KfwJahrNull(T)
            /\ \A j \in (T + 1)..BERECHNUNGSZEITRAUM : KfwJahrNull(j)

\* a bullet loan over at least 3 years with interest and a grant smaller than
\* the loan, repaid at maturity
C4_Witness ==
    /\ Endfaellig
    /\ params["kfw_gesamtlaufzeit"] >= 3
    /\ params["kfw_gesamtlaufzeit"] < BERECHNUNGSZEITRAUM
    /\ RLt(Zero, params["kfw_zins"])
    /\ RLt(Zero, Zuschuss)
    /\ NachZuschussOffen
    /\ df["Tilgung KfW"][params["kfw_gesamtlaufzeit"]] = NachZuschuss
    /\ RLt(df["Zins KfW"][2], df["Zins KfW"][1])

\* C5: in either regime the KfW balance is 0 at the end of year
\* kfw_gesamtlaufzeit and in every later year of the schedule; this holds of
\* the list while the KfW loop runs and of the column once it is assigned.
C5_RestschuldNullNachLaufzeit ==
    /\ pc = "kfw_loop" =>
          \A j \in params["kfw_gesamtlaufzeit"]..Len(loop.restschuld_liste) :
              loop.restschuld_liste[j] = Zero
    /\ ScheduleDone =>
          \A j \in params["kfw_gesamtlaufzeit"]..BERECHNUNGSZEITRAUM :
              df["Restschuld KfW"][j] = Zero

\* an annuity loan still open in the year before its term ends
C5_Witness ==
    /\ ScheduleDone
    /\ params["kfw_darlehenstyp"] = KFW_ANNUITAET
    /\ params["kfw_gesamtlaufzeit"] >= 2
    /\ RLt(Zero, df["Restschuld KfW"][params["kfw_gesamtlaufzeit"] - 1])
    /\ RLt(Zero, df["Tilgung KfW"][params["kfw_gesamtlaufzeit"]])
    /\ df["Restschuld KfW"][params["kfw_gesamtlaufzeit"]] = Zero

\* npf.pmt has raised in this run: calculate_annuity logged the failure
PmtFehlgeschlagen == Len(log) > 0

\* C10 as stated: once npf.pmt has raised while the KfW annuity was computed,
\* run_calculations has ended with an exception; it does not go on.
C10_AbbruchBeiPmtFehler == PmtFehlgeschlagen => pc = "raised"

\* A is the annuity that repays principal at the given rate in n periods
IstAnnuitaet(A, principal, rate, n) ==
    IF rate = Zero
    THEN RMul(A, Num(n)) = principal
    ELSE LET qn == RPow(RAdd(Num(1), rate), n)
         IN  RMul(A, RSub(qn, Num(1))) = RMul(RMul(principal, qn), rate)

\* C10 as amended: when npf.pmt raises while the KfW annuity is computed,
\* calculate_annuity logs the failure and returns the annuity of the closed
\* formula (principal / periods at rate 0); run_calculations does not end
\* with an exception and the schedule goes on with that annuity: the one in
\* force from year 2 (grace period below 2 years) or after the grace period
\* repays the balance it was computed on over the remaining term.
C10_FallbackStattAbbruch ==
    /\ PmtFehlgeschlagen => pc # "raised"
    /\ (pc = "kfw_loop" /\ IRR_ENABLED /\ pmt_raises) =>
          LET g == params["kfw_tilgungsfreie_jahre"]
              T == params["kfw_gesamtlaufzeit"]
              liste == loop.restschuld_liste
          IN  /\ (loop.jahr = 2 /\ params["kfw_darlehenstyp"] = KFW_ANNUITAET /\ g < 2
                    /\ T > 1 /\ RLt(Zero, liste[1])) =>
                    /\ PmtFehlgeschlagen
                    /\ IstAnnuitaet(loop.annuitaet, liste[1], params["kfw_zins"], T - 1)
              /\ (params["kfw_darlehenstyp"] = KFW_ANNUITAET /\ g >= 2 /\ loop.jahr = g + 2
                    /\ RLt(Q(1, 100), liste[g])) =>
                    /\ PmtFehlgeschlagen
                    /\ IstAnnuitaet(loop.annuitaet, liste[g], params["kfw_zins"], T - g)

\* a finished run in which npf.pmt raised and the KfW loan was repaid by the
\* annuity of the fallback
C10_Witness ==
    /\ ScheduleDone
    /\ PmtFehlgeschlagen
    /\ params["kfw_darlehenstyp"] = KFW_ANNUITAET
    /\ params["kfw_gesamtlaufzeit"] >= 3
    /\ RLt(Zero, params["kfw_zins"])
    /\ RLt(Zero, df["Tilgung KfW"][params["kfw_gesamtlaufzeit"] - 1])
    /\ RLt(Zero, df["Tilgung KfW"][params["kfw_gesamtlaufzeit"]])
    /\ df["Restschuld KfW"][params["kfw_gesamtlaufzeit"]] = Zero

\* the KfW loop of an annuity loan with grace period 0 or 1 runs or has run
KurzeFreijahre ==
    /\ pc = "kfw_loop" \/ ScheduleDone
    /\ RLt(Zero, results["kfw_darlehen"])
    /\ params["kfw_darlehenstyp"] = KFW_ANNUITAET
    /\ params["kfw_tilgungsfreie_jahre"] < 2

\* the three KfW columns: the lists of the running loop, then the frame
KfwSpalte(name, liste) == IF pc = "done" THEN df[name] ELSE liste

ZinsKfw == KfwSpalte("Zins KfW", loop.zinsen_liste)

TilgungKfw == KfwSpalte("Tilgung KfW", loop.tilgung_liste)

RestschuldKfw == KfwSpalte("Restschuld KfW", loop.restschuld_liste)

\* the closed annuity formula on a balance over a number of periods, 0 for
\* no balance or no period
Annuitaet(principal, periods) ==
    IF RLe(principal, Zero) \/ periods <= 0 THEN Zero
    ELSE annuitaet_manuell(principal, params["kfw_zins"], periods, <<>>).value

\* the annuity on the unreduced loan over the whole amortization span
AnnuitaetVorZuschuss ==
    Annuitaet(results["kfw_darlehen"],
              params["kfw_gesamtlaufzeit"] - params["kfw_tilgungsfreie_jahre"])

\* the annuity on the balance year 1 ends with, grant applied, over the term
\* less one year
AnnuitaetNachZuschuss == Annuitaet(RestschuldKfw[1], params["kfw_gesamtlaufzeit"] - 1)

\* year j repays min(annuitaet - interest, balance) on the balance the year
\* before ended with
TilgtMit(annuitaet, j, vorjahr) ==
    /\ ZinsKfw[j] = RMul(vorjahr, params["kfw_zins"])
    /\ TilgungKfw[j] = RMin(RSub(annuitaet, ZinsKfw[j]), vorjahr)

\* C21: KfW annuity loan with grace period 0 or 1: every principal repayment
\* from year 2 onward uses the annuity recomputed at the end of year 1 on the
\* balance after the grant over kfw_gesamtlaufzeit - 1 periods; the annuity
\* computed before the grant is used for the repayment of year 1 at most
\* (grace 0), and with grace 1 year 1 repays nothing
C21_AnnuitaetNachZuschuss ==
    KurzeFreijahre =>
        LET zeilen == Len(RestschuldKfw)
        IN  /\ zeilen >= 1 =>
                  IF params["kfw_tilgungsfreie_jahre"] = 0
                  THEN TilgtMit(AnnuitaetVorZuschuss, 1, results["kfw_darlehen"])
                  ELSE TilgungKfw[1] = Zero
            /\ zeilen >= 1 /\ RLt(Zero, RestschuldKfw[1]) => loop.annuitaet = AnnuitaetNachZuschuss
            /\ \A j \in 2..zeilen :
                  IF RLe(RestschuldKfw[j - 1], RESTSCHULD_EPS)
                  THEN TilgungKfw[j] = Zero
                  ELSE TilgtMit(AnnuitaetNachZuschuss, j, RestschuldKfw[j - 1])

\* a finished schedule with grace 0 over 3 years at 50 per cent: year 2
\* repays with the recomputed annuity, which is below the one of year 1
C21_Witness ==
    /\ ScheduleDone
    /\ KurzeFreijahre
    /\ params["kfw_tilgungsfreie_jahre"] = 0
    /\ params["kfw_gesamtlaufzeit"] = 3
    /\ params["kfw_zins"] = Q(1, 2)
    /\ RLt(Zero, TilgungKfw[2])
    /\ RLt(TilgungKfw[2], RestschuldKfw[1])
    /\ RAdd(TilgungKfw[2], ZinsKfw[2]) = AnnuitaetNachZuschuss
    /\ RLt(AnnuitaetNachZuschuss, AnnuitaetVorZuschuss)

\* a finished schedule with grace 1: year 1 repays nothing and year 2 repays
\* with the annuity on the reduced balance
C21_WitnessEinFreijahr ==
    /\ ScheduleDone
    /\ KurzeFreijahre
    /\ params["kfw_tilgungsfreie_jahre"] = 1
    /\ TilgungKfw[1] = Zero
    /\ RLt(Zero, TilgungKfw[2])
    /\ RLt(TilgungKfw[2], RestschuldKfw[1])
    /\ RAdd(TilgungKfw[2], ZinsKfw[2]) = AnnuitaetNachZuschuss

\* the bank part of calculate_financing_schedule runs or has run
BankPlan == pc = "bank_loop" \/ "Restschuld Bank" \in DOMAIN df

\* the three bank columns: the lists of the running loop, then the frame
BankSpalte(name, liste) == IF pc = "bank_loop" THEN liste ELSE df[name]

ZinsBank == BankSpalte("Zins Bank", loop.zinsen_liste)

TilgungBank == BankSpalte("Tilgung Bank", loop.tilgung_liste)

RestschuldBank == BankSpalte("Restschuld Bank", loop.restschuld_liste)

\* the balance before year j, year 0 being the initial loan
BankVorjahr(j) == IF j = 1 THEN results["bankdarlehen"] ELSE RestschuldBank[j - 1]

\* initial loan x (interest rate + amortization rate)
BankRate == RMul(results["bankdarlehen"], RAdd(params["bank_zins"], params["bank_tilgung"]))

\* C23: in every year of the bank-loan schedule the interest is the previous
\* balance x rate and the principal is min(installment - interest, previous
\* balance), the installment being initial loan x (interest rate +
\* amortization rate) throughout; once the balance is <= 0.01 every later
\* year reports interest 0, principal 0 and balance 0
C23_BankplanJahrFuerJahr ==
    BankPlan =>
        \A j \in 1..Len(RestschuldBank) :
            IF RLe(BankVorjahr(j), RESTSCHULD_EPS)
            THEN /\ ZinsBank[j] = Zero
                 /\ TilgungBank[j] = Zero
                 /\ RestschuldBank[j] = Zero
            ELSE /\ ZinsBank[j] = RMul(BankVorjahr(j), params["bank_zins"])
                 /\ TilgungBank[j] = RMin(RSub(BankRate, ZinsBank[j]), BankVorjahr(j))

\* a finished bank schedule at 2 per cent interest and 50 per cent
\* amortization: year 1 repays the installment less interest, year 2 is cut
\* to the balance, year 3 reports zeros
C23_Witness ==
    /\ ScheduleDone
    /\ params["bank_zins"] = Q(2, 100)
    /\ RLt(Zero, ZinsBank[1])
    /\ TilgungBank[1] = RSub(BankRate, ZinsBank[1])
    /\ RLt(Zero, RestschuldBank[1])
    /\ TilgungBank[2] = RestschuldBank[1]
    /\ RLt(TilgungBank[2], RSub(BankRate, ZinsBank[2]))
    /\ RestschuldBank[2] = Zero
    /\ ZinsBank[3] = Zero /\ TilgungBank[3] = Zero /\ RestschuldBank[3] = Zero

\* what is left of the bank loan after the repayments of the years 1..y
BankSollsaldo(y) == RSub(results["bankdarlehen"], SumRange(TilgungBank, 1, y))

\* two amounts differ by at most the 0.01 cut-off
BisAufBagatelle(x, y) == RLe(RSub(x, y), RESTSCHULD_EPS) /\ RLe(RSub(y, x), RESTSCHULD_EPS)

\* C29: for every bank loan > 0 and all non-negative interest and
\* amortization rates, both rates 0 included, the bank balance reported for
\* year y is the initial loan less the bank repayments of the years 1..y, up
\* to the 0.01 cut-off: no debt leaves the balance without a repayment
C29_BankSaldoGleichDarlehenMinusTilgung ==
    BankPlan /\ RLt(Zero, results["bankdarlehen"]) =>
        \A y \in 1..Len(RestschuldBank) : BisAufBagatelle(RestschuldBank[y], BankSollsaldo(y))

\* the same with at least one rate above 0, where the loop runs
C29_BankSaldoBeiPositiverRate ==
    /\ BankPlan
    /\ RLt(Zero, results["bankdarlehen"])
    /\ RLt(Zero, RAdd(params["bank_zins"], params["bank_tilgung"]))
    => \A y \in 1..Len(RestschuldBank) : BisAufBagatelle(RestschuldBank[y], BankSollsaldo(y))

-----------------------------------------------------------------------------
(* Properties of calculate_kpis and calculate_irr, src/app.py *)

KpisDone == pc = "kpis_done"

\* calculate_irr ran: calculate_kpis did not return early on an empty table
IrrBerechnet == KpisDone /\ DOMAIN df # {}

\* C11 as stated: after calculate_irr the KPI kpi_irr_nach_steuer is "N/A"
\* when IRR_ENABLED is false, the number 0.0 whenever the solver raises or
\* returns NaN or a non-real value, and the solver's float result otherwise
C11_FehlerAlsNull ==
    IrrBerechnet =>
        /\ ~IRR_ENABLED => results["kpi_irr_nach_steuer"] = KpiStr("N/A")
        /\ IRR_ENABLED /\ loop.irr.art \in {"raises", "nan", "komplex"} =>
               results["kpi_irr_nach_steuer"] = KpiFloat(Zero)
        /\ IRR_ENABLED /\ loop.irr.art = "reell" =>
               results["kpi_irr_nach_steuer"] = KpiFloat(loop.irr.wert)

\* C11 amended: after calculate_irr the KPI kpi_irr_nach_steuer is "N/A" when
\* IRR_ENABLED is false; it is the text "Fehler", with the failure logged,
\* when the solver raises; it is the number 0.0 when the solver returns NaN or
\* a non-real value; otherwise it is the solver's float result
C11_FehlerAlsText ==
    IrrBerechnet =>
        /\ ~IRR_ENABLED =>
               /\ results["kpi_irr_nach_steuer"] = KpiStr("N/A")
               /\ ~loop.irr_called
               /\ log = <<>>
        /\ IRR_ENABLED /\ loop.irr.art = "raises" =>
               /\ results["kpi_irr_nach_steuer"] = KpiStr("Fehler")
               /\ log = <<IRR_FEHLER>>
        /\ IRR_ENABLED /\ loop.irr.art \in {"nan", "komplex"} =>
               /\ results["kpi_irr_nach_steuer"] = KpiFloat(Zero)
               /\ log = <<>>
        /\ IRR_ENABLED /\ loop.irr.art = "reell" =>
               /\ results["kpi_irr_nach_steuer"] = KpiFloat(loop.irr.wert)
               /\ log = <<>>
        /\ IRR_ENABLED => loop.irr_called /\ loop.irr \in IrrErgebnisse

\* the solver raised inside calculate_irr and the text "Fehler" was stored
C11_Witness ==
    /\ IrrBerechnet
    /\ IRR_ENABLED
    /\ loop.irr.art = "raises"
    /\ results["kpi_irr_nach_steuer"].s = "Fehler"

\* cum_cashflow_nach_steuer + exit_erloes - eigenkapital_bedarf of the finished run
GesamtGewinn ==
    RSub(RAdd(loop.cum_cashflow_nach_steuer, loop.exit_erloes), results["eigenkapital_bedarf"])

\* C13: with eigenkapital_bedarf exactly 0 and a non-empty projection table,
\* kpi_gesamtrendite_nach_steuer is +infinity when the total profit is
\* positive and 0 otherwise, and calculate_kpis returns without an exception
C13_RenditeOhneEigenkapital ==
    KpisDone /\ DOMAIN df # {} /\ results["eigenkapital_bedarf"] = Zero =>
        /\ "kpi_irr_nach_steuer" \in DOMAIN results
        /\ IF RLt(Zero, GesamtGewinn)
           THEN results["kpi_gesamtrendite_nach_steuer"] = KpiInf
           ELSE /\ results["kpi_gesamtrendite_nach_steuer"].s = ""
                /\ results["kpi_gesamtrendite_nach_steuer"].v = Zero

\* no equity, a positive total profit, and the infinity sentinel stored
C13_Witness ==
    /\ KpisDone
    /\ DOMAIN df # {}
    /\ results["eigenkapital_bedarf"] = Zero
    /\ RLt(Zero, GesamtGewinn)
    /\ results["kpi_gesamtrendite_nach_steuer"].s = "inf"

\* no equity and no positive total profit: the other branch is reached too
C13_WitnessKeinGewinn ==
    /\ KpisDone
    /\ DOMAIN df # {}
    /\ results["eigenkapital_bedarf"] = Zero
    /\ ~RLt(Zero, GesamtGewinn)

\* what calculate_kpis computes from the same table and results for a
\* holding period of exactly BERECHNUNGSZEITRAUM
KpisBeiVollemZeitraum ==
    calculate_kpis([params EXCEPT !["geplanter_verkauf"] = [t |-> "int", v |-> BERECHNUNGSZEITRAUM]],
                   results, df, IRR_ENABLED, loop.irr).locals

\* C14: for every requested holding period above the 35-year horizon the exit
\* proceeds, the cumulative post-tax cash flow, the cumulative tax saving and
\* the IRR cash-flow stream are those of a holding period of 35, the last
\* year of the table, and no index error occurs
C14_HaltedauerUeberHorizont ==
    KpisDone /\ DOMAIN df # {} /\ params["geplanter_verkauf"].v > BERECHNUNGSZEITRAUM =>
        /\ loop.exit_erloes = KpisBeiVollemZeitraum.exit_erloes
        /\ loop.cum_cashflow_nach_steuer = KpisBeiVollemZeitraum.cum_cashflow_nach_steuer
        /\ loop.cum_steuerersparnis = KpisBeiVollemZeitraum.cum_steuerersparnis
        /\ loop.irr_stream = KpisBeiVollemZeitraum.irr_stream
        /\ loop.exit_erloes = df["Nettovermoegen"][BERECHNUNGSZEITRAUM]
        /\ loop.cum_cashflow_nach_steuer = SeqSum(df["Cashflow nach Steuer"])
        /\ loop.cum_steuerersparnis = SeqSum(df["Steuerersparnis"])
        /\ IRR_ENABLED =>
              /\ Len(loop.irr_stream) = BERECHNUNGSZEITRAUM + 1
              /\ loop.irr_stream[1] = RNeg(results["eigenkapital_bedarf"])
              /\ \A j \in 1..(BERECHNUNGSZEITRAUM - 1) :
                    loop.irr_stream[j + 1] = df["Cashflow nach Steuer"][j]
              /\ loop.irr_stream[BERECHNUNGSZEITRAUM + 1] =
                    RAdd(df["Cashflow nach Steuer"][BERECHNUNGSZEITRAUM],
                         df["Nettovermoegen"][BERECHNUNGSZEITRAUM])

\* a holding period of 40 years was requested and the IRR stream built
C14_Witness ==
    /\ KpisDone
    /\ DOMAIN df # {}
    /\ params["geplanter_verkauf"].v = 40
    /\ loop.irr_called
    /\ loop.haltedauer = BERECHNUNGSZEITRAUM
    /\ Len(loop.irr_stream) = BERECHNUNGSZEITRAUM + 1

-----------------------------------------------------------------------------
(* Properties of run_calculations, src/park55-app.py (SpecPark55Run) *)

P55RunDone == pc = "p55_run_done"

KpiIstNull(kpi) == kpi.s = "" /\ kpi.v = Zero

\* C12: whenever investitionssumme_gesamt == 0, run_calculations of
\* src/park55-app.py returns without an exception and the ratio-based KPIs
\* kpi_bruttomietrendite, kpi_nettokaufpreis_qm_brutto and
\* kpi_nettokaufpreis_qm_netto all equal 0
C12_NullinvestitionNullKennzahlen ==
    P55RunDone /\ results["investitionssumme_gesamt"] = Zero =>
        /\ KpiIstNull(results["kpi_bruttomietrendite"])
        /\ KpiIstNull(results["kpi_nettokaufpreis_qm_brutto"])
        /\ KpiIstNull(results["kpi_nettokaufpreis_qm_netto"])

-----------------------------------------------------------------------------
(* Properties of calculate_financing_schedule, src/park55-app.py (SpecPark55Finanz) *)

P55FinanzDone == pc = "p55_finanz_done"

\* the KfW part runs or has run on a loan above the given minimum; a zero
\* investment leaves the frame empty
P55KfwPlan(minimum) ==
    /\ \/ pc \in {"p55_kfw_loop", "p55_finanz_raised"}
       \/ pc = "p55_finanz_done" /\ "Restschuld KfW" \in DOMAIN df
    /\ RLt(minimum, results["kfw_darlehen"])

\* the three KfW columns: the lists of the running loop, then the frame
P55KfwSpalte(name, liste) == IF P55FinanzDone THEN df[name] ELSE liste

P55ZinsKfw == P55KfwSpalte("Zins KfW", loop.zinsen_liste)

P55TilgungKfw == P55KfwSpalte("Tilgung KfW", loop.tilgung_liste)

P55RestschuldKfw == P55KfwSpalte("Restschuld KfW", loop.restschuld_liste)

\* the balance year j ends the previous year with
P55Vorjahressaldo(j) == IF j = 1 THEN results["kfw_darlehen"] ELSE P55RestschuldKfw[j - 1]

\* the balance the interest and repayment of year j start from
P55Startsaldo(j) == RAdd(P55RestschuldKfw[j], P55TilgungKfw[j])

\* year j was computed on a loan that still ran, from a balance other than the
\* one the year before ended with
P55Abzug(j) ==
    /\ RLt(RESTSCHULD_EPS, P55Vorjahressaldo(j))
    /\ P55Startsaldo(j) # P55Vorjahressaldo(j)

\* the years of the schedule, as far as it is written, with a subtraction
P55AbzugsJahre == {j \in 1..Len(P55RestschuldKfw) : P55Abzug(j)}

\* the loan less the two grants, floored at 0
P55NachZuschuss ==
    RMax(Zero, RSub(results["kfw_darlehen"],
                    RAdd(results["kfw_tilgungszuschuss"], results["zuschuss_baubegleitung"])))

\* year j is the first amortization year: it starts from the loan less the
\* grant, and its interest and the annuity over the remaining term are
\* computed on that balance
P55ErstesTilgungsjahr(j) ==
    LET zins_kfw == params["kfw_zins"]
        restlaufzeit == params["kfw_gesamtlaufzeit"] - params["kfw_tilgungsfreie_jahre"]
        annuitaet == IF RLt(Zero, P55NachZuschuss)
                     THEN p55_annuitaet_fallback(P55NachZuschuss, zins_kfw, restlaufzeit)
                     ELSE Zero
    IN  /\ P55Startsaldo(j) = P55NachZuschuss
        /\ P55ZinsKfw[j] = RMul(P55NachZuschuss, zins_kfw)
        /\ loop.annuitaet = annuitaet
        /\ P55TilgungKfw[j] = RMin(RSub(annuitaet, P55ZinsKfw[j]), P55NachZuschuss)

\* C20 as stated: for every grace period the sidebar admits and a positive
\* KfW loan, the finished 30-year schedule of src/park55-app.py holds exactly
\* one year in which the grant is subtracted from the balance, the year
\* grace + 1, whose interest and annuity are computed on the reduced balance
C20_ZuschussInGenauEinemJahr ==
    P55FinanzDone /\ P55KfwPlan(Zero) =>
        /\ P55AbzugsJahre = {params["kfw_tilgungsfreie_jahre"] + 1}
        /\ P55ErstesTilgungsjahr(params["kfw_tilgungsfreie_jahre"] + 1)

\* C20 amended: for a KfW loan above 0.01 and a grace period of at most 29
\* years the grant is subtracted in exactly one year of the 30-year schedule,
\* at the start of year grace + 1, before that year's interest and the
\* annuity over the remaining term are computed; for a grace period of 30
\* years or more it is subtracted in no year of the schedule, which then
\* holds the unreduced loan throughout
C20_ZuschussAnDerGrenze ==
    P55KfwPlan(RESTSCHULD_EPS) =>
        LET tilgungsfrei_kfw == params["kfw_tilgungsfreie_jahre"]
            zeilen == Len(P55RestschuldKfw)
        IN  /\ zeilen <= P55_BERECHNUNGSZEITRAUM
            /\ tilgungsfrei_kfw <= max_tilgungsfrei(params["kfw_gesamtlaufzeit"])
            /\ P55AbzugsJahre = {tilgungsfrei_kfw + 1} \cap (1..zeilen)
            /\ tilgungsfrei_kfw + 1 <= zeilen => P55ErstesTilgungsjahr(tilgungsfrei_kfw + 1)
            /\ \A j \in 1..zeilen :
                  j <= tilgungsfrei_kfw =>
                     /\ P55RestschuldKfw[j] = results["kfw_darlehen"]
                     /\ P55TilgungKfw[j] = Zero
                     /\ P55ZinsKfw[j] = RMul(results["kfw_darlehen"], params["kfw_zins"])

\* a finished schedule with 26 grace years on a loan of 1,100 at 50 per cent:
\* year 27 starts from 650 and bears 325 interest
C20_Witness ==
    /\ P55FinanzDone
    /\ P55KfwPlan(RESTSCHULD_EPS)
    /\ params["kfw_tilgungsfreie_jahre"] = 26
    /\ params["kfw_gesamtlaufzeit"] = 30
    /\ results["kfw_darlehen"] = Num(1100)
    /\ P55RestschuldKfw[26] = Num(1100)
    /\ P55AbzugsJahre = {27}
    /\ P55Startsaldo(27) = Num(650)
    /\ P55ZinsKfw[27] = Num(325)
    /\ RLt(Zero, P55TilgungKfw[27])

\* a finished schedule with 34 grace years of a 35-year loan: year 30 ends
\* with the unreduced loan
C20_WitnessNachHorizont ==
    /\ P55FinanzDone
    /\ P55KfwPlan(RESTSCHULD_EPS)
    /\ params["kfw_tilgungsfreie_jahre"] = P55_MAX_GESAMTLAUFZEIT - 1
    /\ P55AbzugsJahre = {}
    /\ P55RestschuldKfw[P55_BERECHNUNGSZEITRAUM] = results["kfw_darlehen"]

-----------------------------------------------------------------------------
(* Properties of calculate_projection, src/app.py (SpecProjektion) *)

\* calculate_projection has returned a projection that is not empty
ProjektionDone == pc = "projection_done" /\ "Cashflow nach Steuer" \in DOMAIN df

\* C24: in the projection of src/app.py the one-time inflow column is the
\* municipal grant in year 1 and exactly 0 in every year 2..35, and in every
\* year post-tax cash flow = pre-tax cash flow + tax saving + one-time
\* inflow, where pre-tax cash flow = income surplus - (total interest +
\* total principal)
C24_SonderzuflussNurJahr1 ==
    ProjektionDone =>
        /\ df["Sonderzufluss"][1] = params["input_kommunale_foerderung"]
        /\ \A j \in 2..BERECHNUNGSZEITRAUM : df["Sonderzufluss"][j] = Zero
        /\ \A j \in Jahre :
              /\ df["Cashflow nach Steuer"][j] =
                    RAdd(RAdd(df["Cashflow vor Steuer"][j], df["Steuerersparnis"][j]),
                         df["Sonderzufluss"][j])
              /\ df["Cashflow vor Steuer"][j] =
                    RSub(df["Einnahmenueberschuss"][j],
                         RAdd(df["Zinsen Gesamt"][j], df["Tilgung Gesamt"][j]))

\* a projection with a municipal grant of 200, rent, interest, repayment and
\* a tax saving in year 1: the grant shows in the post-tax cash flow of year 1
\* and not of year 2
C24_Witness ==
    /\ ProjektionDone
    /\ params["input_kommunale_foerderung"] = Num(200)
    /\ df["Sonderzufluss"][1] = Num(200)
    /\ df["Sonderzufluss"][2] = Zero
    /\ RLt(Zero, df["Einnahmenueberschuss"][1])
    /\ RLt(Zero, df["Zinsen Gesamt"][1])
    /\ RLt(Zero, df["Tilgung Gesamt"][1])
    /\ df["Steuerersparnis"][1] # Zero
    /\ RSub(df["Cashflow nach Steuer"][1], RAdd(df["Cashflow vor Steuer"][1], df["Steuerersparnis"][1]))
          = Num(200)
    /\ df["Cashflow nach Steuer"][2] = RAdd(df["Cashflow vor Steuer"][2], df["Steuerersparnis"][2])

-----------------------------------------------------------------------------
(* Properties of the KfW schedule, src/app.py (SpecKfwTilgung) *)

\* a KfW annuity loan at interest rate 0 whose schedule is being written
NullzinsAnnuitaet ==
    /\ pc = "kfw_loop" \/ ScheduleDone
    /\ RLt(Zero, results["kfw_darlehen"])
    /\ params["kfw_darlehenstyp"] = KFW_ANNUITAET
    /\ params["kfw_zins"] = Zero

\* the balance year j starts with
KfwVorjahr(j) == IF j = 1 THEN results["kfw_darlehen"] ELSE RestschuldKfw[j - 1]

\* year j is skipped as repaid: a year after the first that starts with a
\* balance of at most 0.01
KfwJahrUebersprungen(j) == j > 1 /\ RLe(KfwVorjahr(j), RESTSCHULD_EPS)

\* the installment in force in the amortization year j at rate 0: the
\* balance at the computation of the annuity over the periods then remaining;
\* year 1 of a loan without grace uses the loan over the whole term, later
\* years the balance after the grant over the term from year 2 (grace 0 or 1)
\* or from the first amortization year (grace 2 or more)
NullzinsRate(j) ==
    LET laufzeit == params["kfw_gesamtlaufzeit"]
        tilgungsfrei == params["kfw_tilgungsfreie_jahre"]
    IN  IF j = 1 THEN RDiv(results["kfw_darlehen"], Num(laufzeit))
        ELSE IF tilgungsfrei < 2 THEN RDiv(RestschuldKfw[1], Num(laufzeit - 1))
        ELSE RDiv(RestschuldKfw[tilgungsfrei], Num(laufzeit - tilgungsfrei))

\* the amortization years written so far
NullzinsTilgungsjahre ==
    {j \in 1..Len(RestschuldKfw) :
        params["kfw_tilgungsfreie_jahre"] < j /\ j <= params["kfw_gesamtlaufzeit"]}

C26_WitnessFreijahre ==
    /\ ScheduleDone
    /\ NullzinsAnnuitaet
    /\ params["kfw_gesamtlaufzeit"] = 4
    /\ params["kfw_tilgungsfreie_jahre"] = 2
    /\ results["kfw_darlehen"] = Num(1000)
    /\ TilgungKfw[3] = Num(300)
    /\ TilgungKfw[4] = Num(300)
    /\ RestschuldKfw[4] = Zero

-----------------------------------------------------------------------------
(* Properties of the session-state callbacks, src/app.py (SpecSession) *)

\* the unit count has been changed and handle_anzahl_whg_change is about to run
AnzahlWhgGeaendert == CallbackAnstehend("handle_anzahl_whg_change")

\* handle_anzahl_whg_change has just run on the changed unit count
AnzahlWhgCallbackGelaufen == pc = "main" /\ loop = Callback("handle_anzahl_whg_change")

\* the loan base is units x 150,000 and the fundable costs are 0
KfwFelderZurueckgesetzt(session) ==
    /\ session["input_kfw_darlehen_261_basis"] =
           Num(session["input_anzahl_whg"] * KFW_LIMIT_PRO_WE_BASIS)
    /\ session["input_kfw_foerderfaehige_kosten"] = Zero

\* C27 as stated: whenever handle_anzahl_whg_change fires, in manual or in
\* list mode, it leaves the loan base at units x 150,000 and the fundable
\* costs at 0
C27_AnzahlWhgSetztInJedemModusZurueck ==
    [][AnzahlWhgGeaendert => KfwFelderZurueckgesetzt(inputs_pct')]_vars

\* C27 amended: when handle_anzahl_whg_change fires in manual mode it leaves
\* the loan base at units x 150,000 and the fundable costs at 0 and touches
\* no other field; in list mode it changes nothing
C27_AnzahlWhgSetztImManuellenModusZurueck ==
    [][AnzahlWhgGeaendert =>
          IF inputs_pct["input_mode"] = MODE_MANUAL
          THEN /\ KfwFelderZurueckgesetzt(inputs_pct')
               /\ DOMAIN inputs_pct' = DOMAIN inputs_pct
               /\ \A k \in DOMAIN inputs_pct :
                     k \notin {"input_kfw_darlehen_261_basis", "input_kfw_foerderfaehige_kosten"}
                        => inputs_pct'[k] = inputs_pct[k]
          ELSE inputs_pct' = inputs_pct]_vars

\* manual mode, unit count changed to 2: the callback has left the loan base
\* at 300,000 and the fundable costs at 0
C27_Witness ==
    /\ AnzahlWhgCallbackGelaufen
    /\ inputs_pct["input_mode"] = MODE_MANUAL
    /\ inputs_pct["input_anzahl_whg"] = 2
    /\ inputs_pct["input_kfw_darlehen_261_basis"] = Num(300000)
    /\ inputs_pct["input_kfw_foerderfaehige_kosten"] = Zero

\* list mode, fundable costs of 100,000 entered for the object with 2 units,
\* then the unit count changed to 1: the callback has left both fields alone
C27_WitnessListe ==
    /\ AnzahlWhgCallbackGelaufen
    /\ inputs_pct["input_mode"] = MODE_LIST
    /\ inputs_pct["selected_object"] = "Haus A"
    /\ inputs_pct["input_anzahl_whg"] = 1
    /\ inputs_pct["input_kfw_darlehen_261_basis"] = Num(100000)
    /\ inputs_pct["input_kfw_foerderfaehige_kosten"] = Num(100000)

\* main is about to invoke run_calculations
RunCalculationsAufruf == pc = "convert"

\* C28: after any sequence of the session-state callbacks and reruns of
\* display_inputs, whenever main invokes run_calculations the stored loan
\* base is at least 0 and at most input_anzahl_whg x 150,000
C28_DarlehenBasisImRahmen ==
    RunCalculationsAufruf =>
        /\ RLe(Zero, inputs_pct["input_kfw_darlehen_261_basis"])
        /\ RLe(inputs_pct["input_kfw_darlehen_261_basis"],
               Num(inputs_pct["input_anzahl_whg"] * KFW_LIMIT_PRO_WE_BASIS))

\* list mode with the object of 3 units selected and the unit count changed
\* to 1: the loan base of the object has been lowered to 150,000 before
\* run_calculations is invoked
C28_Witness ==
    /\ RunCalculationsAufruf
    /\ inputs_pct["input_mode"] = MODE_LIST
    /\ inputs_pct["selected_object"] = "Haus B"
    /\ inputs_pct["input_anzahl_whg"] = 1
    /\ inputs_pct["input_kfw_foerderfaehige_kosten"] = Zero
    /\ inputs_pct["input_kfw_darlehen_261_basis"] = Num(KFW_LIMIT_PRO_WE_BASIS)

\* fundable costs of 400,000 for one unit: the loan base is 150,000
C28_WitnessKostenUeberLimit ==
    /\ RunCalculationsAufruf
    /\ inputs_pct["input_anzahl_whg"] = 1
    /\ inputs_pct["input_kfw_foerderfaehige_kosten"] = Num(400000)
    /\ inputs_pct["input_kfw_darlehen_261_basis"] = Num(KFW_LIMIT_PRO_WE_BASIS)

\* the sum of all KfW principal repayments of the schedule
KfwTilgungsSumme == SeqSum(TilgungKfw)

\* the part of the accumulated grant that is applied at the end of year 1:
\* the grant, or the balance left after the repayment of year 1 if that is less
ZuschussAngewandt == RMin(Zuschuss, RSub(results["kfw_darlehen"], TilgungKfw[1]))

\* the debt that left the balance without repayment or grant
KfwOhneTilgungEntfallen ==
    RSub(RSub(results["kfw_darlehen"], ZuschussAngewandt), KfwTilgungsSumme)

\* a finished schedule of a positive KfW loan; every term of the model lies
\* within the horizon
KfwPlanFertig ==
    /\ ScheduleDone
    /\ RLt(Zero, results["kfw_darlehen"])
    /\ params["kfw_gesamtlaufzeit"] <= BERECHNUNGSZEITRAUM

\* C30 as stated: for a positive KfW loan that matures within the horizon, in
\* either regime, the sum of all KfW principal repayments is
\* max(0, initial loan - accumulated grant)
C30_TilgungGleichDarlehenMinusZuschuss ==
    KfwPlanFertig => KfwTilgungsSumme = NachZuschuss

\* C30 amended: for a positive KfW loan that matures within the horizon, in
\* either regime, the sum of all KfW principal repayments is the initial loan
\* less the part of the grant applied at the end of year 1, which is
\* min(grant, loan - repayment of year 1), and less a balance of at most
\* 0.01 that a year after the first started with and dropped; when year 1
\* repays nothing and no such balance is dropped the sum is
\* max(0, loan - grant)
C30_TilgungGleichDarlehenMinusAngewandtemZuschuss ==
    KfwPlanFertig =>
        /\ RLe(Zero, KfwOhneTilgungEntfallen)
        /\ RLe(KfwOhneTilgungEntfallen, RESTSCHULD_EPS)
        /\ KfwOhneTilgungEntfallen # Zero =>
               \E j \in 2..BERECHNUNGSZEITRAUM :
                   /\ KfwVorjahr(j) = KfwOhneTilgungEntfallen
                   /\ TilgungKfw[j] = Zero
                   /\ RestschuldKfw[j] = Zero
        /\ TilgungKfw[1] = Zero /\ KfwOhneTilgungEntfallen = Zero =>
               KfwTilgungsSumme = NachZuschuss

\* an annuity loan of 1,100 with one grace year of two and a grant of 450:
\* year 1 repays nothing and year 2 repays the 650 left
C30_Witness ==
    /\ KfwPlanFertig
    /\ params["kfw_darlehenstyp"] = KFW_ANNUITAET
    /\ params["kfw_tilgungsfreie_jahre"] = 1
    /\ params["kfw_gesamtlaufzeit"] = 2
    /\ results["kfw_darlehen"] = Num(1100)
    /\ Zuschuss = Num(450)
    /\ TilgungKfw[1] = Zero
    /\ KfwTilgungsSumme = Num(650)

\* a bullet loan of 1,100 over one year: year 1 repays the whole loan and the
\* grant of 450 finds no balance
C30_WitnessEinJahr ==
    /\ KfwPlanFertig
    /\ params["kfw_darlehenstyp"] = KFW_ENDFAELLIG
    /\ params["kfw_gesamtlaufzeit"] = 1
    /\ results["kfw_darlehen"] = Num(1100)
    /\ Zuschuss = Num(450)
    /\ ZuschussAngewandt = Zero
    /\ KfwTilgungsSumme = Num(1100)

\* a loan of 150,000 over 35 years at rate 0: the 1/119 year 35 starts with
\* is dropped
C30_WitnessBagatelle ==
    /\ KfwPlanFertig
    /\ KfwOhneTilgungEntfallen = Q(1, 119)
    /\ KfwVorjahr(BERECHNUNGSZEITRAUM) = Q(1, 119)

====
